---- MODULE Spec2Model ----
(***************************************************************************)
(* Turn-resolution and combat engine of the ants-and-bees game             *)
(* (src/src/game.ts, src/src/ants.ts).                                     *)
(*                                                                         *)
(* Objects are represented by where they are held: a defender by the slot  *)
(* (ant / guard) of the grid Place that holds it, a Bee by its index in    *)
(* the sequence of created bees.  An operator named Class_method models    *)
(* that method; it takes the mutable part of the heap as a record w and    *)
(* returns the heap after the call.                                        *)
(***************************************************************************)
EXTENDS Integers, Sequences, FiniteSets, TLC

VARIABLES
  cfg,       \* constructor arguments of AntColony and Hive
  food,      \* AntColony.food
  boosts,    \* AntColony.boosts
  ant,       \* Place.ant   of every grid Place
  guard,     \* Place.guard of every grid Place
  bees,      \* Place.bees  of every grid Place, of the queen's Place and of the Hive
  insect,    \* the Bee objects created so far: armor, damage, status, place
  waves,     \* Hive.waves
  turn,      \* AntGame.turn
  pc,        \* position of the control flow
  antQueue,  \* what is left of the getAllAnts() snapshot in antsAct
  beeQueue,  \* what is left of the getAllBees() snapshot in beesAct
  acted,     \* history: act() invocations of the current takeTurn()
  calls,     \* history: reduceArmor calls made by the last step
  ret        \* history: the last operation and what it returned

vars == <<cfg, food, boosts, ant, guard, bees, insect, waves, turn, pc,
          antQueue, beeQueue, acted, calls, ret>>

-----------------------------------------------------------------------------
(* Bounds of the model *)

MaxTurn      == 3   \* takeTurn() calls explored in a general game
MaxEaterTurn == 7   \* takeTurn() calls explored in a game of Eaters
MaxSprayTurn == 2   \* takeTurn() calls explored in a game of sprayers
MaxCommandTurn == 1 \* takeTurn() calls explored in a game of commands
MaxInvadeTurn == 2  \* takeTurn() calls explored in a game of invasions
MaxMarchTurn == 4   \* takeTurn() calls explored in a game without defence
MaxStatusTurn == 3  \* takeTurn() calls explored in a game of sticky and icy leaves
MaxThrowTurn == 7   \* takeTurn() calls explored in a game of leaf throwers
MaxDigestTurn == 6  \* takeTurn() calls explored in a game of one Eater
MaxBees      == 2   \* Bee objects created by addWave
MaxFound     == 1   \* boosts found by Growers
MaxDistance  == 5   \* largest maxDistance asked of getClosestBee

-----------------------------------------------------------------------------
(* Places *)

Undefined  == <<"undefined", 0, 0>>
queenPlace == <<"Ant Queen", 0, 0>>
hive       == <<"Hive", 0, 0>>
Tunnel(t, s) == <<"tunnel", t, s>>
Stomach(p) == <<"stomach", p[2], p[3]>>

Tunnels(c) == 0 .. c.numTunnels - 1
Steps(c)   == 0 .. c.tunnelLength - 1
GridOf(c)  == {Tunnel(t, s) : t \in Tunnels(c), s \in Steps(c)}
Grid       == GridOf(cfg)

\* AntColony.constructor: a Place is water when (step+1) % moatFrequency = 0
isWater(p) ==
  /\ p \in Grid
  /\ cfg.moatFrequency # 0
  /\ (p[3] + 1) % cfg.moatFrequency = 0

\* AntColony.constructor: exit link, one step toward the queen
getExit(p) ==
  IF p \in Grid
    THEN IF p[3] = 0 THEN queenPlace ELSE Tunnel(p[2], p[3] - 1)
    ELSE Undefined

\* AntColony.constructor: entrance link, set by prev.setEntrance(curr); the
\* queen's Place is prev of step 0 of every tunnel, the last call wins
getEntrance(p) ==
  IF p \in Grid
    THEN IF p[3] + 1 < cfg.tunnelLength THEN Tunnel(p[2], p[3] + 1) ELSE Undefined
    ELSE IF p = queenPlace /\ cfg.numTunnels > 0 /\ cfg.tunnelLength > 0
           THEN Tunnel(cfg.numTunnels - 1, 0)
           ELSE Undefined

\* beeEntrances taken at the wrong end of each tunnel: its first Place
getEntrances_exit ==
  [i \in 1 .. cfg.numTunnels |->
     IF cfg.tunnelLength > 0 THEN Tunnel(i - 1, 0) ELSE queenPlace]

\* AntColony.beeEntrances, in tunnel order
getEntrances ==
  [i \in 1 .. cfg.numTunnels |->
     IF cfg.tunnelLength > 0 THEN Tunnel(i - 1, cfg.tunnelLength - 1) ELSE queenPlace]

\* places[i][j] in the order of the nested loops of getAllAnts/getAllBees/placesAct
GridOrder ==
  [k \in 1 .. cfg.numTunnels * cfg.tunnelLength |->
     Tunnel((k - 1) \div cfg.tunnelLength, (k - 1) % cfg.tunnelLength)]

-----------------------------------------------------------------------------
(* Insects *)

NoAnt == [name |-> "undefined", armor |-> 0, foodCost |-> 0, boost |-> "undefined",
          turnsEating |-> 0, stomach |-> <<>>]

NewAnt(name, armor, foodCost) ==
  [name |-> name, armor |-> armor, foodCost |-> foodCost, boost |-> "undefined",
   turnsEating |-> 0, stomach |-> <<>>]

GrowerAnt  == NewAnt("Grower", 1, 1)
ThrowerAnt == NewAnt("Thrower", 1, 4)
EaterAnt   == NewAnt("Eater", 2, 4)
ScubaAnt   == NewAnt("Scuba", 1, 5)
GuardAnt   == NewAnt("Guard", 2, 4)

NewBee(armor, damage, place) ==
  [armor |-> armor, damage |-> damage, status |-> "undefined", place |-> place]

BoostNames == {"FlyingLeaf", "StickyLeaf", "IcyLeaf", "BugSpray"}

\* The heap the methods work on
Heap == [ant |-> ant, guard |-> guard, bees |-> bees, insect |-> insect,
         food |-> food, boosts |-> boosts, acted |-> acted, calls |-> <<>>]

\* references to units, for the histories
BeeRef(b)   == [kind |-> "Bee",   id |-> b, p |-> Undefined]
AntRef(p)   == [kind |-> "Ant",   id |-> 0, p |-> p]
GuardRef(p) == [kind |-> "Guard", id |-> 0, p |-> p]

IndexOf(seq, x) ==
  IF \E i \in 1 .. Len(seq) : seq[i] = x
    THEN CHOOSE i \in 1 .. Len(seq) : seq[i] = x /\ \A j \in 1 .. i - 1 : seq[j] # x
    ELSE 0

Splice(seq, i) == [j \in 1 .. Len(seq) - 1 |-> IF j < i THEN seq[j] ELSE seq[j + 1]]

-----------------------------------------------------------------------------
(* Place *)

\* Place.getAnt: the guard when there is one, else the regular occupant
Place_getAnt(w, p) ==
  IF p \notin Grid THEN NoAnt
  ELSE IF w.guard[p] # NoAnt THEN w.guard[p] ELSE w.ant[p]

\* the slot Place.getAnt reads
Place_getAntSlot(w, p) ==
  IF p \notin Grid THEN "undefined"
  ELSE IF w.guard[p] # NoAnt THEN "guard"
  ELSE IF w.ant[p] # NoAnt THEN "ant" ELSE "undefined"

\* Place.getGuardedAnt
Place_getGuardedAnt(w, p) == w.ant[p]

\* Place.getBees
Place_getBees(w, p) == IF p \in DOMAIN w.bees THEN w.bees[p] ELSE <<>>

\* Place.getClosestBee: the loop, from Place p at distance dist; 0 is undefined
RECURSIVE ClosestBeeFrom(_, _, _, _, _)
ClosestBeeFrom(w, p, dist, maxDistance, minDistance) ==
  IF p = Undefined \/ dist > maxDistance THEN 0
  ELSE IF dist >= minDistance /\ Len(Place_getBees(w, p)) > 0
         THEN Place_getBees(w, p)[1]
         ELSE ClosestBeeFrom(w, getEntrance(p), dist + 1, maxDistance, minDistance)

\* getClosestBee with the loop ended by dist < maxDistance
Place_getClosestBee_short(w, p, maxDistance, minDistance) ==
  ClosestBeeFrom(w, p, 0, maxDistance - 1, minDistance)

Place_getClosestBee(w, p, maxDistance, minDistance) ==
  ClosestBeeFrom(w, p, 0, maxDistance, minDistance)

\* Place.addBee without the bee.setPlace(this)
Place_addBee_unset(w, p, b) == [w EXCEPT !.bees[p] = Append(@, b)]

\* Place.addBee
Place_addBee(w, p, b) ==
  [w EXCEPT !.bees[p] = Append(@, b), !.insect[b].place = p]

\* Place.removeBee without the test of the index: splice(-1, 1) takes the last
Place_removeBee_noCheck(w, p, b) ==
  LET index == IndexOf(w.bees[p], b)
  IN  IF index >= 1
        THEN [w EXCEPT !.bees[p] = Splice(@, index), !.insect[b].place = Undefined]
        ELSE IF w.bees[p] # <<>>
               THEN [w EXCEPT !.bees[p] = Splice(@, Len(@)), !.insect[b].place = Undefined]
               ELSE [w EXCEPT !.insect[b].place = Undefined]

\* Place.removeBee
Place_removeBee(w, p, b) ==
  LET index == IndexOf(w.bees[p], b)
  IN  IF index >= 1
        THEN [w EXCEPT !.bees[p] = Splice(@, index), !.insect[b].place = Undefined]
        ELSE w

\* Place.exitBee without the removeBee: the Bee enters the exit and stays listed
Place_exitBee_keep(w, p, b) == Place_addBee(w, getExit(p), b)

\* Place.exitBee that sends the Bee to the entrance when the Place has one
Place_exitBee_back(w, p, b) ==
  Place_addBee(Place_removeBee(w, p, b),
               IF getEntrance(p) # Undefined THEN getEntrance(p) ELSE getExit(p), b)

\* Place.exitBee
Place_exitBee(w, p, b) == Place_addBee(Place_removeBee(w, p, b), getExit(p), b)

\* Place.removeAnt that clears the regular slot first
Place_removeAnt_regularFirst(w, p) ==
  IF w.ant[p] # NoAnt
    THEN [w EXCEPT !.ant[p] = NoAnt]
    ELSE [w EXCEPT !.guard[p] = NoAnt]

\* Place.removeAnt: clears the guard slot when it is occupied, else the regular slot
Place_removeAnt(w, p) ==
  IF w.guard[p] # NoAnt
    THEN [w EXCEPT !.guard[p] = NoAnt]
    ELSE [w EXCEPT !.ant[p] = NoAnt]

\* Place.removeInsect, for an Ant
Place_removeInsectAnt(w, p) == Place_removeAnt(w, p)

\* Place.removeInsect, for a Bee
Place_removeInsectBee(w, p, b) == Place_removeBee(w, p, b)

\* Place.addAnt that refuses any Place whose getAnt() is defined
Place_addAnt_shared(w, p, a) ==
  IF w.guard[p] # NoAnt \/ w.ant[p] # NoAnt
    THEN <<w, FALSE>>
    ELSE IF a.name = "Guard"
           THEN <<[w EXCEPT !.guard[p] = a], TRUE>>
           ELSE <<[w EXCEPT !.ant[p] = a], TRUE>>

\* Place.addAnt that puts the Ant in its slot whatever the slot holds
Place_addAnt_replace(w, p, a) ==
  IF a.name = "Guard"
    THEN <<[w EXCEPT !.guard[p] = a], TRUE>>
    ELSE <<[w EXCEPT !.ant[p] = a], TRUE>>

\* Place.addAnt: <<heap, success>>
Place_addAnt(w, p, a) ==
  IF a.name = "Guard"
    THEN IF w.guard[p] = NoAnt
           THEN <<[w EXCEPT !.guard[p] = a], TRUE>>
           ELSE <<w, FALSE>>
    ELSE IF w.ant[p] = NoAnt
           THEN <<[w EXCEPT !.ant[p] = a], TRUE>>
           ELSE <<w, FALSE>>

\* Place.act that does not take the guard away first
Place_act_guardStays(w, p) ==
  IF isWater(p)
    THEN IF w.ant[p].name # "Scuba" THEN Place_removeAnt(w, p) ELSE w
    ELSE w

\* Place.act: flooding of one Place
Place_act(w, p) ==
  IF isWater(p)
    THEN LET w1 == IF w.guard[p] # NoAnt THEN Place_removeAnt(w, p) ELSE w
         IN  IF w1.ant[p].name # "Scuba" THEN Place_removeAnt(w1, p) ELSE w1
    ELSE w

-----------------------------------------------------------------------------
(* Insect.reduceArmor and its override *)

Logged(w, unit, amount, before, after, expired) ==
  [w EXCEPT !.calls = Append(@, [unit |-> unit, amount |-> amount, before |-> before,
                                 after |-> after, expired |-> expired])]

\* Insect.reduceArmor on Bee b
Bee_reduceArmor(w, b, amount) ==
  LET before == w.insect[b].armor
      w1 == [w EXCEPT !.insect[b].armor = @ - amount]
      expired == w1.insect[b].armor <= 0
      w2 == IF expired /\ w1.insect[b].place \in DOMAIN w1.bees
              THEN Place_removeInsectBee(w1, w1.insect[b].place, b)
              ELSE w1
  IN  Logged(w2, BeeRef(b), amount, before, w1.insect[b].armor, expired)

\* Insect.reduceArmor on the defender in the given slot ("ant" or "guard") of
\* Place p: <<heap, armor afterwards, returned value>>
Insect_reduceArmor(w, p, slot, amount) ==
  LET w1 == IF slot = "guard" THEN [w EXCEPT !.guard[p].armor = @ - amount]
                              ELSE [w EXCEPT !.ant[p].armor = @ - amount]
      armor == IF slot = "guard" THEN w1.guard[p].armor ELSE w1.ant[p].armor
  IN  IF armor <= 0
        THEN <<Place_removeInsectAnt(w1, p), armor, TRUE>>
        ELSE <<w1, armor, FALSE>>

\* EaterAnt.reduceArmor that leaves turnsEating alone when it coughs up
EaterAnt_reduceArmor_noReset(w, p, amount) ==
  LET w1 == [w EXCEPT !.ant[p].armor = @ - amount]
      me == w1.ant[p]
      eaten == me.stomach[1]
      coughUp == Place_addBee([w1 EXCEPT !.ant[p].stomach = Tail(@)], p, eaten)
  IN  IF me.armor > 0
        THEN IF me.turnsEating = 1
               THEN <<coughUp, me.armor, FALSE>>
               ELSE <<w1, me.armor, FALSE>>
        ELSE LET w2 == IF me.turnsEating > 0 /\ me.turnsEating <= 2 THEN coughUp ELSE w1
             IN  Insect_reduceArmor(w2, p, "ant", amount)

\* EaterAnt.reduceArmor that coughs up at any stage of the digestion
EaterAnt_reduceArmor_always(w, p, amount) ==
  LET w1 == [w EXCEPT !.ant[p].armor = @ - amount]
      me == w1.ant[p]
      eaten == me.stomach[1]
      coughUp == Place_addBee([w1 EXCEPT !.ant[p].stomach = Tail(@)], p, eaten)
  IN  IF me.armor > 0
        THEN IF me.turnsEating = 1
               THEN <<[coughUp EXCEPT !.ant[p].turnsEating = 3], me.armor, FALSE>>
               ELSE <<w1, me.armor, FALSE>>
        ELSE LET w2 == IF me.stomach # <<>> THEN coughUp ELSE w1
             IN  Insect_reduceArmor(w2, p, "ant", amount)

\* EaterAnt.reduceArmor on the Eater in the regular slot of Place p
EaterAnt_reduceArmor(w, p, amount) ==
  LET w1 == [w EXCEPT !.ant[p].armor = @ - amount]
      me == w1.ant[p]
      eaten == me.stomach[1]
      coughUp == Place_addBee([w1 EXCEPT !.ant[p].stomach = Tail(@)], p, eaten)
  IN  IF me.armor > 0
        THEN IF me.turnsEating = 1
               THEN <<[coughUp EXCEPT !.ant[p].turnsEating = 3], me.armor, FALSE>>
               ELSE <<w1, me.armor, FALSE>>
        ELSE LET w2 == IF me.turnsEating > 0 /\ me.turnsEating <= 2 THEN coughUp ELSE w1
             IN  Insect_reduceArmor(w2, p, "ant", amount)

\* ant.reduceArmor(amount) with dynamic dispatch, as called by Bee.sting and by
\* the spraying defender on itself
Ant_reduceArmor(w, p, slot, amount) ==
  LET before == IF slot = "guard" THEN w.guard[p].armor ELSE w.ant[p].armor
      r == IF slot = "ant" /\ w.ant[p].name = "Eater"
             THEN EaterAnt_reduceArmor(w, p, amount)
             ELSE Insect_reduceArmor(w, p, slot, amount)
  IN  Logged(r[1], IF slot = "guard" THEN GuardRef(p) ELSE AntRef(p),
             amount, before, r[2], r[3])

-----------------------------------------------------------------------------
(* act() of every kind of Insect *)

Acted(w, unit) == [w EXCEPT !.acted = Append(@, unit)]

Found(w) ==
  w.boosts["FlyingLeaf"] + w.boosts["StickyLeaf"] + w.boosts["IcyLeaf"]
    + w.boosts["BugSpray"] - 3

\* AntColony.increaseFood
AntColony_increaseFood(w, amount) == [w EXCEPT !.food = @ + amount]

\* AntColony.addBoost
AntColony_addBoost(w, boost) ==
  LET w1 == IF boost \notin DOMAIN w.boosts
              THEN [w EXCEPT !.boosts = [n \in DOMAIN @ \cup {boost} |->
                                           IF n = boost THEN 0 ELSE @[n]]]
              ELSE w
  IN  [w1 EXCEPT !.boosts[boost] = @ + 1]

\* Math.random() in hundredths: one value at each edge of every band
Rolls == {0, 59, 60, 69, 70, 79, 80, 89, 90, 94, 95, 99}

\* GrowerAnt.act whose second band also grows food
GrowerAnt_act_both(w, roll) ==
  IF roll < 60 THEN AntColony_increaseFood(w, 1)
  ELSE IF roll < 70 THEN AntColony_increaseFood(AntColony_addBoost(w, "FlyingLeaf"), 1)
  ELSE IF roll < 80 THEN AntColony_addBoost(w, "StickyLeaf")
  ELSE IF roll < 90 THEN AntColony_addBoost(w, "IcyLeaf")
  ELSE IF roll < 95 THEN AntColony_addBoost(w, "BugSpray")
  ELSE w

\* GrowerAnt.act, roll being Math.random() in hundredths
GrowerAnt_act(w, roll) ==
  IF roll < 60 THEN AntColony_increaseFood(w, 1)
  ELSE IF roll < 70 THEN AntColony_addBoost(w, "FlyingLeaf")
  ELSE IF roll < 80 THEN AntColony_addBoost(w, "StickyLeaf")
  ELSE IF roll < 90 THEN AntColony_addBoost(w, "IcyLeaf")
  ELSE IF roll < 95 THEN AntColony_addBoost(w, "BugSpray")
  ELSE w

\* the while loop of the BugSpray branch
RECURSIVE SprayLoop(_, _)
SprayLoop(w, p) ==
  LET target == Place_getClosestBee(w, p, 0, 0)
  IN  IF target # 0 THEN SprayLoop(Bee_reduceArmor(w, target, 10), p) ELSE w

\* ThrowerAnt.act that throws as far as 5 with any boost
ThrowerAnt_act_far(w, p) ==
  LET me == w.ant[p]
  IN  IF me.boost # "BugSpray"
        THEN LET target == Place_getClosestBee(w, p, 5, 0)
                 w1 == Bee_reduceArmor(w, target, 1)
                 w2 == IF me.boost = "StickyLeaf"
                         THEN [w1 EXCEPT !.insect[target].status = "stuck"] ELSE w1
                 w3 == IF me.boost = "IcyLeaf"
                         THEN [w2 EXCEPT !.insect[target].status = "cold"] ELSE w2
             IN  IF target # 0 THEN [w3 EXCEPT !.ant[p].boost = "undefined"] ELSE w
        ELSE Ant_reduceArmor(SprayLoop(w, p), p, "ant", 10)

\* ThrowerAnt.act, the Thrower being the regular occupant of Place p
ThrowerAnt_act(w, p) ==
  LET me == w.ant[p]
  IN  IF me.boost # "BugSpray"
        THEN LET target == IF me.boost = "FlyingLeaf"
                             THEN Place_getClosestBee(w, p, 5, 0)
                             ELSE Place_getClosestBee(w, p, 3, 0)
                 w1 == Bee_reduceArmor(w, target, 1)
                 w2 == IF me.boost = "StickyLeaf"
                         THEN [w1 EXCEPT !.insect[target].status = "stuck"] ELSE w1
                 w3 == IF me.boost = "IcyLeaf"
                         THEN [w2 EXCEPT !.insect[target].status = "cold"] ELSE w2
             IN  IF target # 0 THEN [w3 EXCEPT !.ant[p].boost = "undefined"] ELSE w
        ELSE Ant_reduceArmor(SprayLoop(w, p), p, "ant", 10)

\* ScubaAnt.act that keeps its boost after the throw
ScubaAnt_act_keep(w, p) ==
  LET me == w.ant[p]
  IN  IF me.boost # "BugSpray"
        THEN LET target == IF me.boost = "FlyingLeaf"
                             THEN Place_getClosestBee(w, p, 5, 0)
                             ELSE Place_getClosestBee(w, p, 3, 0)
                 w1 == Bee_reduceArmor(w, target, 1)
                 w2 == IF me.boost = "StickyLeaf"
                         THEN [w1 EXCEPT !.insect[target].status = "stuck"] ELSE w1
                 w3 == IF me.boost = "IcyLeaf"
                         THEN [w2 EXCEPT !.insect[target].status = "cold"] ELSE w2
             IN  IF target # 0 THEN w3 ELSE w
        ELSE Ant_reduceArmor(SprayLoop(w, p), p, "ant", 10)

\* ScubaAnt.act, the Scuba being the regular occupant of Place p
ScubaAnt_act(w, p) ==
  LET me == w.ant[p]
  IN  IF me.boost # "BugSpray"
        THEN LET target == IF me.boost = "FlyingLeaf"
                             THEN Place_getClosestBee(w, p, 5, 0)
                             ELSE Place_getClosestBee(w, p, 3, 0)
                 w1 == Bee_reduceArmor(w, target, 1)
                 w2 == IF me.boost = "StickyLeaf"
                         THEN [w1 EXCEPT !.insect[target].status = "stuck"] ELSE w1
                 w3 == IF me.boost = "IcyLeaf"
                         THEN [w2 EXCEPT !.insect[target].status = "cold"] ELSE w2
             IN  IF target # 0 THEN [w3 EXCEPT !.ant[p].boost = "undefined"] ELSE w
        ELSE Ant_reduceArmor(SprayLoop(w, p), p, "ant", 10)

\* EaterAnt.act with the cooldown ended by turnsEating > 2
EaterAnt_act_early(w, p) ==
  LET me == w.ant[p]
  IN  IF me.turnsEating = 0
        THEN LET target == Place_getClosestBee(w, p, 0, 0)
                 w1 == Place_removeBee(w, p, target)
             IN  IF target # 0
                   THEN [w1 EXCEPT !.ant[p].stomach = Append(@, target),
                                   !.insect[target].place = Stomach(p),
                                   !.ant[p].turnsEating = 1]
                   ELSE w
        ELSE IF me.turnsEating > 2
               THEN LET w1 == IF me.stomach # <<>>
                                THEN [w EXCEPT !.ant[p].stomach = Tail(@),
                                               !.insect[me.stomach[1]].place = Undefined]
                                ELSE w
                    IN  [w1 EXCEPT !.ant[p].turnsEating = 0]
               ELSE [w EXCEPT !.ant[p].turnsEating = @ + 1]

\* EaterAnt.act that tries to eat whenever its stomach is empty
EaterAnt_act_hungry(w, p) ==
  LET me == w.ant[p]
  IN  IF me.stomach = <<>>
        THEN LET target == Place_getClosestBee(w, p, 0, 0)
                 w1 == Place_removeBee(w, p, target)
             IN  IF target # 0
                   THEN [w1 EXCEPT !.ant[p].stomach = Append(@, target),
                                   !.insect[target].place = Stomach(p),
                                   !.ant[p].turnsEating = 1]
                   ELSE w
        ELSE IF me.turnsEating > 3
               THEN [w EXCEPT !.ant[p].stomach = Tail(@),
                              !.insect[me.stomach[1]].place = Undefined,
                              !.ant[p].turnsEating = 0]
               ELSE [w EXCEPT !.ant[p].turnsEating = @ + 1]

\* EaterAnt.act that reaches one Place up the tunnel for its meal
EaterAnt_act_reach(w, p) ==
  LET me == w.ant[p]
  IN  IF me.turnsEating = 0
        THEN LET target == Place_getClosestBee(w, p, 1, 0)
                 w1 == Place_removeBee(w, w.insect[target].place, target)
             IN  IF target # 0
                   THEN [w1 EXCEPT !.ant[p].stomach = Append(@, target),
                                   !.insect[target].place = Stomach(p),
                                   !.ant[p].turnsEating = 1]
                   ELSE w
        ELSE IF me.turnsEating > 3
               THEN LET w1 == IF me.stomach # <<>>
                                THEN [w EXCEPT !.ant[p].stomach = Tail(@),
                                               !.insect[me.stomach[1]].place = Undefined]
                                ELSE w
                    IN  [w1 EXCEPT !.ant[p].turnsEating = 0]
               ELSE [w EXCEPT !.ant[p].turnsEating = @ + 1]

\* EaterAnt.act that ends the digestion without emptying the stomach
EaterAnt_act_keepMeal(w, p) ==
  LET me == w.ant[p]
  IN  IF me.turnsEating = 0
        THEN LET target == Place_getClosestBee(w, p, 0, 0)
                 w1 == Place_removeBee(w, p, target)
             IN  IF target # 0
                   THEN [w1 EXCEPT !.ant[p].stomach = Append(@, target),
                                   !.insect[target].place = Stomach(p),
                                   !.ant[p].turnsEating = 1]
                   ELSE w
        ELSE IF me.turnsEating > 3
               THEN [w EXCEPT !.ant[p].turnsEating = 0]
               ELSE [w EXCEPT !.ant[p].turnsEating = @ + 1]

\* EaterAnt.act that sets the Bee back into the Place when the meal is over
EaterAnt_act_release(w, p) ==
  LET me == w.ant[p]
  IN  IF me.turnsEating = 0
        THEN LET target == Place_getClosestBee(w, p, 0, 0)
                 w1 == Place_removeBee(w, p, target)
             IN  IF target # 0
                   THEN [w1 EXCEPT !.ant[p].stomach = Append(@, target),
                                   !.insect[target].place = Stomach(p),
                                   !.ant[p].turnsEating = 1]
                   ELSE w
        ELSE IF me.turnsEating > 3
               THEN LET w1 == IF me.stomach # <<>>
                                THEN Place_addBee([w EXCEPT !.ant[p].stomach = Tail(@)],
                                                  p, me.stomach[1])
                                ELSE w
                    IN  [w1 EXCEPT !.ant[p].turnsEating = 0]
               ELSE [w EXCEPT !.ant[p].turnsEating = @ + 1]

\* EaterAnt.act, the Eater being the regular occupant of Place p
EaterAnt_act(w, p) ==
  LET me == w.ant[p]
  IN  IF me.turnsEating = 0
        THEN LET target == Place_getClosestBee(w, p, 0, 0)
                 w1 == Place_removeBee(w, p, target)
             IN  IF target # 0
                   THEN [w1 EXCEPT !.ant[p].stomach = Append(@, target),
                                   !.insect[target].place = Stomach(p),
                                   !.ant[p].turnsEating = 1]
                   ELSE w
        ELSE IF me.turnsEating > 3
               THEN LET w1 == IF me.stomach # <<>>
                                THEN [w EXCEPT !.ant[p].stomach = Tail(@),
                                               !.insect[me.stomach[1]].place = Undefined]
                                ELSE w
                    IN  [w1 EXCEPT !.ant[p].turnsEating = 0]
               ELSE [w EXCEPT !.ant[p].turnsEating = @ + 1]

\* GuardAnt.act
GuardAnt_act(w, p) == w

\* act(colony) of the regular occupant of Place p, by its class
Ant_act(w, p, roll) ==
  LET w1 == Acted(w, AntRef(p))
      name == w.ant[p].name
  IN  IF name = "Grower" THEN GrowerAnt_act(w1, roll)
      ELSE IF name = "Thrower" THEN ThrowerAnt_act(w1, p)
      ELSE IF name = "Scuba" THEN ScubaAnt_act(w1, p)
      ELSE IF name = "Eater" THEN EaterAnt_act(w1, p)
      ELSE w1

\* Bee.isBlocked that looks at the regular occupant only
Bee_isBlocked_regular(w, b) == w.ant[w.insect[b].place] # NoAnt

\* Bee.isBlocked
Bee_isBlocked(w, b) == Place_getAnt(w, w.insect[b].place) # NoAnt

\* Bee.sting: ant.reduceArmor(this.damage), ant being this.place.getAnt()
Bee_sting(w, b) ==
  LET p == w.insect[b].place
  IN  Ant_reduceArmor(w, p, Place_getAntSlot(w, p), w.insect[b].damage)

\* Bee.act that moves on only with armor to spare
Bee_act_weary(w, b) ==
  LET me == w.insect[b]
      w1 == Acted(w, BeeRef(b))
      w2 == IF Bee_isBlocked(w1, b)
              THEN IF me.status # "cold" THEN Bee_sting(w1, b) ELSE w1
              ELSE IF me.armor > 1 /\ me.status # "stuck"
                     THEN Place_exitBee(w1, me.place, b)
                     ELSE w1
  IN  [w2 EXCEPT !.insect[b].status = "undefined"]

\* Bee.act
Bee_act(w, b) ==
  LET me == w.insect[b]
      w1 == Acted(w, BeeRef(b))
      w2 == IF Bee_isBlocked(w1, b)
              THEN IF me.status # "cold" THEN Bee_sting(w1, b) ELSE w1
              ELSE IF me.armor > 0 /\ me.status # "stuck"
                     THEN Place_exitBee(w1, me.place, b)
                     ELSE w1
  IN  [w2 EXCEPT !.insect[b].status = "undefined"]

-----------------------------------------------------------------------------
(* AntColony: one callback of each phase *)

\* AntColony.getAllAnts: getAnt() of every occupied Place, in grid order
AntColony_getAllAnts(w) ==
  LET occupied == SelectSeq(GridOrder, LAMBDA p : Place_getAnt(w, p) # NoAnt)
  IN  [k \in 1 .. Len(occupied) |->
         [p |-> occupied[k], slot |-> Place_getAntSlot(w, occupied[k])]]

RECURSIVE ConcatBees(_, _)
ConcatBees(w, k) ==
  IF k > Len(GridOrder) THEN <<>>
  ELSE Place_getBees(w, GridOrder[k]) \o ConcatBees(w, k + 1)

\* getAllBees that also lists the bees waiting in the Hive
AntColony_getAllBees_hive(w) == ConcatBees(w, 1) \o Place_getBees(w, hive)

\* getAllBees that also lists the bees of the queen's Place
AntColony_getAllBees_queen(w) == ConcatBees(w, 1) \o Place_getBees(w, queenPlace)

\* AntColony.getAllBees: the bees of every grid Place, concatenated in grid order
AntColony_getAllBees(w) == ConcatBees(w, 1)

\* the callback of antsAct without the call of the guarded ant's act
AntColony_antsAct_guardOnly(w, a, roll) ==
  IF a.slot = "guard"
    THEN GuardAnt_act(Acted(w, GuardRef(a.p)), a.p)
    ELSE Ant_act(w, a.p, roll)

\* the callback of antsAct for one element of the getAllAnts() snapshot
AntColony_antsAct(w, a, roll) ==
  IF a.slot = "guard"
    THEN LET guarded == Place_getGuardedAnt(w, a.p)
             w1 == IF guarded # NoAnt THEN Ant_act(w, a.p, roll) ELSE w
         IN  GuardAnt_act(Acted(w1, GuardRef(a.p)), a.p)
    ELSE Ant_act(w, a.p, roll)

\* the callback of beesAct for one element of the getAllBees() snapshot
AntColony_beesAct(w, b) == Bee_act(w, b)

\* AntColony.placesAct
RECURSIVE PlacesActFrom(_, _)
PlacesActFrom(w, k) ==
  IF k > Len(GridOrder) THEN w ELSE PlacesActFrom(Place_act(w, GridOrder[k]), k + 1)

AntColony_placesAct(w) == PlacesActFrom(w, 1)

\* AntColony.queenHasBees
AntColony_queenHasBees(w) == Len(Place_getBees(w, queenPlace)) > 0

\* AntColony.deployAnt that takes the food before it tries the Place
AntColony_deployAnt_chargeFirst(w, a, place) ==
  IF w.food >= a.foodCost
    THEN IF place = Undefined THEN <<w, "TypeError">>
         ELSE LET r == Place_addAnt([w EXCEPT !.food = @ - a.foodCost], place, a)
              IN  IF r[2] THEN <<r[1], "undefined">>
                          ELSE <<r[1], "tunnel already occupied">>
    ELSE <<w, "not enough food">>

\* AntColony.deployAnt without the test of the food
AntColony_deployAnt_credit(w, a, place) ==
  IF place = Undefined THEN <<w, "TypeError">>
  ELSE LET r == Place_addAnt(w, place, a)
       IN  IF r[2] THEN <<[r[1] EXCEPT !.food = @ - a.foodCost], "undefined">>
                   ELSE <<w, "tunnel already occupied">>

\* AntColony.deployAnt: <<heap, returned value>>; "TypeError" stands for the
\* exception thrown by a method call on an undefined place
AntColony_deployAnt(w, a, place) ==
  IF w.food >= a.foodCost
    THEN IF place = Undefined THEN <<w, "TypeError">>
         ELSE LET r == Place_addAnt(w, place, a)
              IN  IF r[2] THEN <<[r[1] EXCEPT !.food = @ - a.foodCost], "undefined">>
                          ELSE <<w, "tunnel already occupied">>
    ELSE <<w, "not enough food">>

\* names that every object literal inherits from Object.prototype: looked up
\* in this.boosts they give a function, which is not undefined and for which
\* the comparison < 1 is false
ObjectPrototype == {"constructor", "toString"}

\* this.boosts[boost] === undefined || this.boosts[boost] < 1
NoSuchBoost(w, boost) ==
  IF boost \in DOMAIN w.boosts THEN w.boosts[boost] < 1
  ELSE boost \notin ObjectPrototype

\* AntColony.applyBoost that takes the boost given out of the inventory
AntColony_applyBoost_consume(w, boost, place) ==
  IF NoSuchBoost(w, boost)
    THEN <<w, "no such boost">>
    ELSE IF place = Undefined THEN <<w, "TypeError">>
    ELSE IF Place_getAnt(w, place) = NoAnt
           THEN <<w, "no Ant at location">>
           ELSE LET w1 == IF boost \in DOMAIN w.boosts
                            THEN [w EXCEPT !.boosts[boost] = @ - 1] ELSE w
                IN  IF w.guard[place] # NoAnt
                      THEN <<[w1 EXCEPT !.guard[place].boost = boost], "undefined">>
                      ELSE <<[w1 EXCEPT !.ant[place].boost = boost], "undefined">>

\* AntColony.applyBoost: <<heap, returned value>>
AntColony_applyBoost(w, boost, place) ==
  IF NoSuchBoost(w, boost)
    THEN <<w, "no such boost">>
    ELSE IF place = Undefined THEN <<w, "TypeError">>
    ELSE IF Place_getAnt(w, place) = NoAnt
           THEN <<w, "no Ant at location">>
           ELSE IF w.guard[place] # NoAnt
                  THEN <<[w EXCEPT !.guard[place].boost = boost], "undefined">>
                  ELSE <<[w EXCEPT !.ant[place].boost = boost], "undefined">>

-----------------------------------------------------------------------------
(* Hive *)

\* Hive.invade: the forEach over the wave; pick[i] is the entrance index drawn
\* by Math.floor(Math.random()*entrances.length) for the i-th bee
RECURSIVE InvadeFrom(_, _, _, _)
InvadeFrom(w, wave, pick, i) ==
  IF i > Len(wave) THEN w
  ELSE InvadeFrom(Place_addBee(Place_removeBee(w, hive, wave[i]),
                               getEntrances[pick[i] + 1], wave[i]),
                  wave, pick, i + 1)

\* Hive.invade without the removeBee: the bees enter and stay listed in the Hive
Hive_invade_stay(w, wv, currentTurn, pick) ==
  IF currentTurn \in DOMAIN wv
    THEN <<[InvadeFrom(w, wv[currentTurn], pick, 1) EXCEPT !.bees[hive] = w.bees[hive]],
           wv[currentTurn]>>
    ELSE <<w, <<>>>>

\* Hive.invade: <<heap, returned wave>>
Hive_invade(w, wv, currentTurn, pick) ==
  IF currentTurn \in DOMAIN wv
    THEN <<InvadeFrom(w, wv[currentTurn], pick, 1), wv[currentTurn]>>
    ELSE <<w, <<>>>>

\* gameIsWon with the test for a win made before the test for a loss
AntGame_gameIsWon_winFirst(w) ==
  IF Len(AntColony_getAllBees(w)) + Len(Place_getBees(w, hive)) = 0 THEN "true"
  ELSE IF AntColony_queenHasBees(w) THEN "false"
  ELSE "undefined"

\* AntGame.gameIsWon: "true", "false" or "undefined"
AntGame_gameIsWon(w) ==
  IF AntColony_queenHasBees(w) THEN "false"
  ELSE IF Len(AntColony_getAllBees(w)) + Len(Place_getBees(w, hive)) = 0 THEN "true"
  ELSE "undefined"

gameIsWon == AntGame_gameIsWon(Heap)

-----------------------------------------------------------------------------
(* AntGame: the operations on coordinate strings *)

\* the property keys that are array indices
Digits == <<"0", "1", "2", "3", "4", "5", "6", "7">>
KeyIndex(key) ==
  IF \E i \in 1 .. Len(Digits) : Digits[i] = key
    THEN (CHOOSE i \in 1 .. Len(Digits) : Digits[i] = key) - 1
    ELSE -1

TypeError == <<"TypeError", 0, 0>>

\* getPlaces()[coords[0]][coords[1]], coords being placeCoordinates.split(',');
\* indexing an undefined row throws, a missing column yields undefined
PlaceAt(coords) ==
  IF KeyIndex(coords[1]) \notin Tunnels(cfg) THEN TypeError
  ELSE IF Len(coords) >= 2 /\ KeyIndex(coords[2]) \in Steps(cfg)
         THEN Tunnel(KeyIndex(coords[1]), KeyIndex(coords[2]))
         ELSE Undefined

\* String.toLowerCase on the type names given
ToLowerCase(str) ==
  CASE str = "Grower" -> "grower"
    [] str = "THROWER" -> "thrower"
    [] str = "Eater" -> "eater"
    [] str = "ScUbA" -> "scuba"
    [] str = "Guard" -> "guard"
    [] OTHER -> str

\* the switch of AntGame.deployAnt
AntOfType(antType) ==
  CASE ToLowerCase(antType) = "grower" -> GrowerAnt
    [] ToLowerCase(antType) = "thrower" -> ThrowerAnt
    [] ToLowerCase(antType) = "eater" -> EaterAnt
    [] ToLowerCase(antType) = "scuba" -> ScubaAnt
    [] ToLowerCase(antType) = "guard" -> GuardAnt
    [] OTHER -> NoAnt

\* AntGame.deployAnt: <<heap, returned value>>
AntGame_deployAnt(w, antType, coords) ==
  IF AntOfType(antType) = NoAnt THEN <<w, "unknown ant type">>
  ELSE IF PlaceAt(coords) = TypeError THEN <<w, "illegal location">>
  ELSE LET r == AntColony_deployAnt(w, AntOfType(antType), PlaceAt(coords))
       IN  IF r[2] = "TypeError" THEN <<w, "illegal location">> ELSE r

\* AntGame.removeAnt: <<heap, returned value>>
AntGame_removeAnt(w, coords) ==
  IF PlaceAt(coords) \in {TypeError, Undefined} THEN <<w, "illegal location">>
  ELSE <<Place_removeAnt(w, PlaceAt(coords)), "undefined">>

\* AntGame.boostAnt: <<heap, returned value>>
AntGame_boostAnt(w, boostType, coords) ==
  IF PlaceAt(coords) = TypeError THEN <<w, "illegal location">>
  ELSE LET r == AntColony_applyBoost(w, boostType, PlaceAt(coords))
       IN  IF r[2] = "TypeError" THEN <<w, "illegal location">> ELSE r

\* AntGame.getHiveBeesCount
getHiveBeesCount == Len(bees[hive])

\* AntGame.getBoostNames
getBoostNames == {n \in DOMAIN boosts : boosts[n] > 0}

-----------------------------------------------------------------------------
(* Inputs *)

\* placeCoordinates after split(','): the Places of the grid
GridCoords ==
  {<<Digits[t + 1], Digits[s + 1]>> : t \in Tunnels(cfg), s \in Steps(cfg)}

\* a row past the grid, a column past the grid, a part that is no number, and
\* a string without comma
BadCoords ==
  {<<Digits[cfg.numTunnels + 1], "0">>, <<"0", Digits[cfg.tunnelLength + 1]>>,
   <<"x", "0">>, <<"0">>}

Returned(op, value) == [op |-> op, value |-> value, wave |-> <<>>]

Commit(w) ==
  /\ ant' = w.ant
  /\ guard' = w.guard
  /\ bees' = w.bees
  /\ insect' = w.insect
  /\ food' = w.food
  /\ boosts' = w.boosts
  /\ acted' = w.acted
  /\ calls' = w.calls

-----------------------------------------------------------------------------
(* Initial state: new AntColony(...), new Hive(beeArmor, beeDamage) *)

DefaultBoosts ==
  [n \in BoostNames |-> IF n = "BugSpray" THEN 0 ELSE 1]

Constructed(c) ==
  /\ cfg = c
  /\ food = c.startingFood
  /\ boosts = DefaultBoosts
  /\ ant = [p \in GridOf(c) |-> NoAnt]
  /\ guard = [p \in GridOf(c) |-> NoAnt]
  /\ bees = [p \in GridOf(c) \cup {queenPlace, hive} |-> <<>>]
  /\ insect = <<>>
  /\ waves = <<>>
  /\ turn = 0
  /\ pc = "Hive"
  /\ antQueue = <<>>
  /\ beeQueue = <<>>
  /\ acted = <<>>
  /\ calls = <<>>
  /\ ret = Returned("new", "undefined")

Config(food0, tunnels, len, moat, armor, damage) ==
  [startingFood |-> food0, numTunnels |-> tunnels, tunnelLength |-> len,
   moatFrequency |-> moat, beeArmor |-> armor, beeDamage |-> damage]

-----------------------------------------------------------------------------
(* Scenario construction *)

\* Hive.addWave
Hive_addWave(w, wv, attackTurn, numBees) ==
  LET first == Len(w.insect)
      wave == [i \in 1 .. numBees |-> first + i]
      created == w.insect \o [i \in 1 .. numBees |->
                                NewBee(cfg.beeArmor, cfg.beeDamage, hive)]
      w1 == [w EXCEPT !.insect = created, !.bees[hive] = @ \o wave]
  IN  <<w1, [t \in DOMAIN wv \cup {attackTurn} |->
               IF t = attackTurn THEN wave ELSE wv[t]]>>

AddWave(attackTurn, numBees) ==
  /\ pc = "Hive"
  /\ Len(insect) + numBees <= MaxBees
  /\ LET r == Hive_addWave(Heap, waves, attackTurn, numBees)
     IN  Commit(r[1]) /\ waves' = r[2]
  /\ ret' = Returned("addWave", "undefined")
  /\ UNCHANGED <<cfg, turn, pc, antQueue, beeQueue>>

\* new AntGame(colony, hive)
NewGame ==
  /\ pc = "Hive"
  /\ pc' = "idle"
  /\ ret' = Returned("AntGame", "undefined")
  /\ calls' = <<>>
  /\ UNCHANGED <<cfg, food, boosts, ant, guard, bees, insect, waves, turn,
                 antQueue, beeQueue, acted>>

-----------------------------------------------------------------------------
(* The operations of AntGame *)

DeployAnt(antType, coords) ==
  /\ pc = "idle"
  /\ LET r == AntGame_deployAnt(Heap, antType, coords)
     IN  Commit(r[1]) /\ ret' = Returned("deployAnt", r[2])
  /\ UNCHANGED <<cfg, waves, turn, pc, antQueue, beeQueue>>

RemoveAnt(coords) ==
  /\ pc = "idle"
  /\ LET r == AntGame_removeAnt(Heap, coords)
     IN  Commit(r[1]) /\ ret' = Returned("removeAnt", r[2])
  /\ UNCHANGED <<cfg, waves, turn, pc, antQueue, beeQueue>>

BoostAnt(boostType, coords) ==
  /\ pc = "idle"
  /\ LET r == AntGame_boostAnt(Heap, boostType, coords)
     IN  Commit(r[1]) /\ ret' = Returned("boostAnt", r[2])
  /\ UNCHANGED <<cfg, waves, turn, pc, antQueue, beeQueue>>

\* AntGame.takeTurn up to the getAllAnts() snapshot of antsAct
TakeTurn(turns) ==
  /\ pc = "idle"
  /\ turn < turns
  /\ pc' = "antsAct"
  /\ antQueue' = AntColony_getAllAnts(Heap)
  /\ acted' = <<>>
  /\ calls' = <<>>
  /\ ret' = Returned("takeTurn", "undefined")
  /\ UNCHANGED <<cfg, food, boosts, ant, guard, bees, insect, waves, turn, beeQueue>>

\* the rolls a step may draw: a Grower draws one, and finds a boost only
\* while fewer than MaxFound have been found
RollsOf(a) ==
  IF ant[a.p].name = "Grower"
    THEN {r \in Rolls : (r >= 60 /\ r < 95) => Found(Heap) < MaxFound}
    ELSE {0}

\* one callback of the forEach of antsAct
AntsAct ==
  /\ pc = "antsAct"
  /\ antQueue # <<>>
  /\ \E roll \in RollsOf(Head(antQueue)) :
       Commit(AntColony_antsAct(Heap, Head(antQueue), roll))
  /\ antQueue' = Tail(antQueue)
  /\ ret' = Returned("antsAct", "undefined")
  /\ UNCHANGED <<cfg, waves, turn, pc, beeQueue>>

\* end of antsAct and the getAllBees() snapshot of beesAct
BeesActBegin ==
  /\ pc = "antsAct"
  /\ antQueue = <<>>
  /\ pc' = "beesAct"
  /\ beeQueue' = AntColony_getAllBees(Heap)
  /\ calls' = <<>>
  /\ ret' = Returned("beesAct", "undefined")
  /\ UNCHANGED <<cfg, food, boosts, ant, guard, bees, insect, waves, turn,
                 antQueue, acted>>

\* one callback of the forEach of beesAct
BeesAct ==
  /\ pc = "beesAct"
  /\ beeQueue # <<>>
  /\ Commit(AntColony_beesAct(Heap, Head(beeQueue)))
  /\ beeQueue' = Tail(beeQueue)
  /\ ret' = Returned("beesAct", "undefined")
  /\ UNCHANGED <<cfg, waves, turn, pc, antQueue>>

\* end of beesAct, then placesAct
PlacesAct ==
  /\ pc = "beesAct"
  /\ beeQueue = <<>>
  /\ pc' = "invade"
  /\ Commit(AntColony_placesAct(Heap))
  /\ ret' = Returned("placesAct", "undefined")
  /\ UNCHANGED <<cfg, waves, turn, antQueue, beeQueue>>

\* Invade with the counter increased before the call to invade
Invade_incrementFirst ==
  /\ pc = "invade"
  /\ \E pick \in [1 .. (IF turn + 1 \in DOMAIN waves THEN Len(waves[turn + 1]) ELSE 0)
                    -> 0 .. cfg.numTunnels - 1] :
       LET r == Hive_invade(Heap, waves, turn + 1, pick)
       IN  /\ Commit(r[1])
           /\ ret' = [op |-> "invade", value |-> "undefined", wave |-> r[2]]
  /\ turn' = turn + 1
  /\ pc' = "idle"
  /\ UNCHANGED <<cfg, waves, antQueue, beeQueue>>

\* this.hive.invade(this.colony, this.turn); this.turn++
Invade ==
  /\ pc = "invade"
  /\ \E pick \in [1 .. (IF turn \in DOMAIN waves THEN Len(waves[turn]) ELSE 0)
                    -> 0 .. cfg.numTunnels - 1] :
       LET r == Hive_invade(Heap, waves, turn, pick)
       IN  /\ Commit(r[1])
           /\ ret' = [op |-> "invade", value |-> "undefined", wave |-> r[2]]
  /\ turn' = turn + 1
  /\ pc' = "idle"
  /\ UNCHANGED <<cfg, waves, antQueue, beeQueue>>

\* The next-state relation of a game of the given number of turns, for a
\* player who schedules waves for the given turns and sizes and gives the given
\* type names, boost names and coordinates
NextOf(turns, waveTurns, waveSizes, antTypes, boostTypes, coordinates) ==
  \/ \E attackTurn \in waveTurns, numBees \in waveSizes : AddWave(attackTurn, numBees)
  \/ NewGame
  \/ \E antType \in antTypes, coords \in coordinates : DeployAnt(antType, coords)
  \/ \E coords \in coordinates : RemoveAnt(coords)
  \/ \E boostType \in boostTypes, coords \in coordinates : BoostAnt(boostType, coords)
  \/ TakeTurn(turns)
  \/ AntsAct
  \/ BeesActBegin
  \/ BeesAct
  \/ PlacesAct
  \/ Invade

\* A general game: throwers and guards against up to two waves
Init == \E c \in {Config(10, 1, 2, 2, 2, 1), Config(10, 1, 1, 0, 1, 1)} : Constructed(c)

Next ==
  NextOf(MaxTurn, {0, 1}, {1, 2}, {"THROWER", "scuba", "Guard"}, {"StickyLeaf"},
         GridCoords)

Spec == Init /\ [][Next]_vars

\* A game of Eaters
InitEater == Constructed(Config(8, 1, 1, 0, 2, 1))

NextEater ==
  NextOf(MaxEaterTurn, {0, 1, 5}, {1, 2}, {"Eater", "Guard"}, {"StickyLeaf"}, GridCoords)

SpecEater == InitEater /\ [][NextEater]_vars

\* A game of sprayers
InitSpray == Constructed(Config(9, 1, 2, 0, 1, 1))

NextSpray ==
  NextOf(MaxSprayTurn, {0}, {1}, {"grower", "THROWER", "Guard"}, {"BugSpray"}, GridCoords)

SpecSpray == InitSpray /\ [][NextSpray]_vars

\* A game of commands: every type name and one that is none, coordinates in
\* and out of the grid, boosts in stock, out of stock and unknown
AntTypes == {"Grower", "THROWER", "Eater", "ScUbA", "Guard", "Queen"}

\* boosts in stock, out of stock and unknown, one of these the name of a
\* property of every object
BoostTypes == {"StickyLeaf", "IcyLeaf", "BugSpray", "Honey", "constructor"}

InitCommand == Constructed(Config(5, 1, 1, 0, 1, 1))

NextCommand ==
  NextOf(MaxCommandTurn, {0}, {1}, AntTypes, BoostTypes, GridCoords \cup BadCoords)

SpecCommand == InitCommand /\ [][NextCommand]_vars

\* A game of invasions: two tunnels of two Places, waves of one and two bees
InitInvade == Constructed(Config(0, 2, 2, 0, 1, 1))

NextInvade ==
  NextOf(MaxInvadeTurn, {0, 1}, {1, 2}, {"Grower"}, {"StickyLeaf"}, GridCoords)

SpecInvade == InitInvade /\ [][NextInvade]_vars

\* A game without defence, played on: two tunnels of two Places, no food, and
\* a player who goes on calling takeTurn(), each call running to its end
InitMarch == Constructed(Config(0, 2, 2, 0, 1, 1))

NextMarch ==
  NextOf(MaxMarchTurn, {0, 1}, {1, 2}, {"Grower"}, {"StickyLeaf"}, GridCoords)

TurnMarch ==
  \/ TakeTurn(MaxMarchTurn)
  \/ AntsAct
  \/ BeesActBegin
  \/ BeesAct
  \/ PlacesAct
  \/ Invade

SpecMarch == InitMarch /\ [][NextMarch]_vars /\ WF_vars(TurnMarch)

\* A game of sticky and icy leaves: a tunnel of two Places, Throwers, Eaters
\* and Guards, one wave of bees that survive a leaf
InitStatus == Constructed(Config(8, 1, 2, 0, 2, 1))

NextStatus ==
  NextOf(MaxStatusTurn, {0}, {1, 2}, {"THROWER", "Eater", "Guard"},
         {"StickyLeaf", "IcyLeaf"}, GridCoords)

SpecStatus == InitStatus /\ [][NextStatus]_vars

\* A game of leaf throwers: one tunnel of seven Places, so that an attacker
\* can stand out of every range, a Thrower and a Scuba deployed at index 0 or
\* 2, the flight boost, and bees that survive two leaves
InitThrow == Constructed(Config(9, 1, 7, 0, 3, 1))

NextThrow ==
  NextOf(MaxThrowTurn, {0}, {1, 2}, {"THROWER", "ScUbA"}, {"FlyingLeaf"},
         {<<"0", "0">>, <<"0", "2">>})

SpecThrow == InitThrow /\ [][NextThrow]_vars

\* A game of one Eater that a single sting removes: the second bee arrives
\* with the Eater at any stage of its digestion of the first
InitDigest == Constructed(Config(8, 1, 1, 0, 1, 2))

NextDigest ==
  NextOf(MaxDigestTurn, {0, 1, 2, 3, 4}, {1, 2}, {"Eater"}, {"StickyLeaf"}, GridCoords)

SpecDigest == InitDigest /\ [][NextDigest]_vars

-----------------------------------------------------------------------------
(* Place.getClosestBee as a function of the board: the bees stand anywhere,   *)
(* in any arrival order, and the query is made from any Place                 *)

QueryPlaces(c) == GridOf(c) \cup {queenPlace, hive}

Standing(c, n, at, order) ==
  /\ cfg = c
  /\ food = c.startingFood
  /\ boosts = DefaultBoosts
  /\ ant = [p \in GridOf(c) |-> NoAnt]
  /\ guard = [p \in GridOf(c) |-> NoAnt]
  /\ bees = [p \in QueryPlaces(c) |-> SelectSeq(order, LAMBDA b : at[b] = p)]
  /\ insect = [b \in 1 .. n |-> NewBee(c.beeArmor, c.beeDamage, at[b])]
  /\ waves = <<>>
  /\ turn = 0
  /\ pc = "query"
  /\ antQueue = <<>>
  /\ beeQueue = <<>>
  /\ acted = <<>>
  /\ calls = <<>>
  /\ ret = Returned("new", "undefined")

InitQuery ==
  LET c == Config(0, 2, 3, 0, 1, 1)
  IN  \E n \in 0 .. MaxBees :
        \E at \in [1 .. n -> QueryPlaces(c)], order \in Permutations(1 .. n) :
          Standing(c, n, at, [i \in 1 .. n |-> order[i]])

Query(p, maxDistance, minDistance) ==
  /\ pc = "query"
  /\ ret' = [op |-> "getClosestBee", p |-> p, maxDistance |-> maxDistance,
             minDistance |-> minDistance,
             value |-> Place_getClosestBee(Heap, p, maxDistance, minDistance)]
  /\ pc' = "done"
  /\ UNCHANGED <<cfg, food, boosts, ant, guard, bees, insect, waves, turn,
                 antQueue, beeQueue, acted, calls>>

NextQuery ==
  \E p \in QueryPlaces(cfg), maxDistance \in 0 .. MaxDistance :
    \E minDistance \in 0 .. maxDistance : Query(p, maxDistance, minDistance)

SpecQuery == InitQuery /\ [][NextQuery]_vars

-----------------------------------------------------------------------------
(* Properties *)

Range(seq) == {seq[i] : i \in 1 .. Len(seq)}

\* the operations a takeTurn() call consists of, and what may follow each
InTurn == {"takeTurn", "antsAct", "beesAct", "placesAct"}

FollowedBy(op) ==
  CASE op = "takeTurn"  -> {"antsAct", "beesAct"}
    [] op = "antsAct"   -> {"antsAct", "beesAct"}
    [] op = "beesAct"   -> {"beesAct", "placesAct"}
    [] op = "placesAct" -> {"invade"}
    [] OTHER            -> {}

Scheduled(t) == IF t \in DOMAIN waves THEN waves[t] ELSE <<>>

\* the bees of the waves that are due at the given value of the turn counter or later
DueFrom(t) == UNION {Range(waves[u]) : u \in {v \in DOMAIN waves : v >= t}}

Untouched(b) ==
  /\ insect[b].armor = cfg.beeArmor
  /\ insect[b].status = "undefined"
  /\ BeeRef(b) \notin Range(acted)
  /\ \A i \in 1 .. Len(calls) : calls[i].unit # BeeRef(b)

C1_Step ==
  /\ ret.op \in InTurn => ret'.op \in FollowedBy(ret.op)
  /\ ret'.op \in InTurn \ {"takeTurn"} => ret.op \in InTurn /\ turn' = turn
  /\ ret'.op = "takeTurn" => pc = "idle" /\ turn' = turn
  /\ ret'.op = "antsAct" => pc' = "antsAct"
  /\ ret'.op = "beesAct" => pc' = "beesAct" /\ antQueue = <<>>
  /\ ret'.op = "placesAct" => pc' = "invade" /\ beeQueue = <<>>
  /\ ret'.op = "invade" =>
       /\ ret.op = "placesAct"
       /\ ret'.wave = Scheduled(turn)
       /\ turn' = turn + 1
       /\ pc' = "idle"
       /\ \A b \in Range(Scheduled(turn)) :
            /\ b \in Range(bees[hive])
            /\ b \notin Range(bees'[hive])
            /\ \E i \in 1 .. cfg.numTunnels : b \in Range(bees'[getEntrances[i]])
            /\ Untouched(b)'
  /\ turn' # turn => ret'.op = "invade"
  /\ pc' # "Hive" => \A b \in DueFrom(turn)' : b \in Range(bees'[hive]) /\ Untouched(b)'

\* C1: every takeTurn() runs antsAct, beesAct, placesAct and then
\* Hive.invade with the value of the turn counter before the increment, each
\* once and in this order, and only then adds exactly 1 to the counter; so the
\* bees of a wave scheduled for turn t are in the Hive, have not acted and have
\* not been targeted until the invade of the (t+1)-th takeTurn() puts them at
\* a tunnel entrance.
C1_TurnOrder == [][C1_Step]_vars

\* a second wave has entered the grid at the end of a turn in which insects acted
C1_Witness ==
  /\ pc = "idle"
  /\ ret.op = "invade"
  /\ ret.wave # <<>>
  /\ turn = 2
  /\ acted # <<>>

\* C2: isWon() is false exactly when the queen's Place holds an attacker,
\* whatever stands elsewhere; otherwise it is true exactly when no grid Place
\* and not the Hive holds an attacker; otherwise it is indeterminate.
C2_IsWon ==
  LET atQueen == \E b \in DOMAIN insect : b \in Range(bees[queenPlace])
      onGrid  == \E p \in Grid : \E b \in DOMAIN insect : b \in Range(bees[p])
      inHive  == \E b \in DOMAIN insect : b \in Range(bees[hive])
  IN  /\ (gameIsWon = "false") <=> atQueen
      /\ ~atQueen => ((gameIsWon = "true") <=> (~onGrid /\ ~inHive))
      /\ (~atQueen /\ (onGrid \/ inHive)) => gameIsWon = "undefined"

\* an attacker stands in the queen's Place while another stands in the grid
C2_Witness ==
  /\ pc = "idle"
  /\ bees[queenPlace] # <<>>
  /\ \E p \in Grid : bees[p] # <<>>
  /\ gameIsWon = "false"

\* The scenario of C3: one tunnel of length 1, 10 food, bees of armor 1 and
\* damage 1, one wave of one bee at turn 0, and a lone Thrower at (0,0) that
\* acted in the takeTurn() that has just returned
C3_Scenario(turns) ==
  /\ cfg = Config(10, 1, 1, 0, 1, 1)
  /\ DOMAIN waves = {0}
  /\ waves[0] = <<1>>
  /\ Len(insect) = 1
  /\ pc = "idle"
  /\ ret.op = "invade"
  /\ turn = turns
  /\ ant[Tunnel(0, 0)].name = "Thrower"
  /\ guard[Tunnel(0, 0)] = NoAnt
  /\ acted = <<AntRef(Tunnel(0, 0))>>

C3_BeeRemoved ==
  /\ \A p \in DOMAIN bees : bees[p] = <<>>
  /\ insect[1].place = Undefined
  /\ insect[1].armor <= 0

\* C3 as claimed: after exactly one takeTurn() the attacker has been removed,
\* the Hive is empty and isWon() is true
C3_AsClaimed ==
  C3_Scenario(1) => C3_BeeRemoved /\ bees[hive] = <<>> /\ gameIsWon = "true"

\* C3 as amended: after exactly one takeTurn() the attacker stands unharmed at
\* (0,0), the Hive is empty and isWon() is indeterminate; after exactly two
\* takeTurn() calls the attacker has been removed, the Hive is empty and
\* isWon() is true
C3_Amended ==
  /\ C3_Scenario(1) =>
       /\ bees[Tunnel(0, 0)] = <<1>>
       /\ insect[1].armor = 1
       /\ bees[hive] = <<>>
       /\ gameIsWon = "undefined"
  /\ C3_Scenario(2) => C3_BeeRemoved /\ bees[hive] = <<>> /\ gameIsWon = "true"

\* the scenario after its second takeTurn()
C3_Witness == C3_Scenario(2) /\ C3_BeeRemoved

\* the calls of reduceArmor made by the step just taken
Calls == {calls'[i] : i \in 1 .. Len(calls')}

Expired(unit) == \E c \in Calls : c.unit = unit /\ c.expired

\* what C4 says of one call of reduceArmor, from the state before the step
\* that made it to the state after
C4_Call(c) ==
  LET p == c.unit.p
      b == c.unit.id
  IN  /\ c.expired <=> c.after <= 0
      /\ c.unit.kind = "Bee" /\ c.expired =>
           \A q \in DOMAIN bees' : b \notin Range(bees'[q])
      /\ c.unit.kind = "Bee" /\ ~c.expired =>
           /\ insect'[b].place = insect[b].place
           /\ insect'[b].armor = c.after
           /\ b \in Range(bees'[insect[b].place])
      /\ c.unit.kind = "Ant" /\ c.expired =>
           /\ ant'[p] = NoAnt
           /\ guard'[p] = guard[p] \/ Expired(GuardRef(p))
      /\ c.unit.kind = "Ant" /\ ~c.expired =>
           /\ ant'[p].name = ant[p].name
           /\ ant'[p].armor = c.after
           /\ guard'[p] = guard[p]
      /\ c.unit.kind = "Guard" /\ c.expired =>
           /\ guard'[p] = NoAnt
           /\ ant'[p] = ant[p] \/ Expired(AntRef(p))
      /\ c.unit.kind = "Guard" /\ ~c.expired =>
           /\ guard'[p].name = guard[p].name
           /\ guard'[p].armor = c.after
           /\ ant'[p] = ant[p]

\* C4: a reduceArmor that brings the armor of an attacker, guard, unguarded or
\* shielded regular defender to 0 or less removes that unit and no other from
\* its Place and reports expired; one that leaves it above 0 leaves the unit in
\* place and reports still active
C4_ReduceArmor == [][\A c \in Calls : C4_Call(c)]_vars

\* the slots and the attacker lists of two heaps are the same
SameBoard(w1, w2) == w1.ant = w2.ant /\ w1.guard = w2.guard /\ w1.bees = w2.bees

\* a second removeAnt(coords) right after the step changes nothing
C5_SecondRemove(coords) == SameBoard(AntGame_removeAnt(Heap', coords)[1], Heap')

\* a second removeBee(b) at Place p right after a first changes nothing
C5_RemoveBee ==
  \A p \in DOMAIN bees, b \in 1 .. Len(insect) :
    SameBoard(Place_removeBee(Place_removeBee(Heap, p, b), p, b),
              Place_removeBee(Heap, p, b))

\* C5 as claimed: a removeAnt(coords) or removeBee(b) repeated at once leaves
\* the regular slot, the guard slot and the attacker list as the first left them
C5_AsClaimed ==
  /\ []C5_RemoveBee
  /\ [][\A coords \in GridCoords : RemoveAnt(coords) => C5_SecondRemove(coords)]_vars

\* C5 as amended: removeBee repeated at once changes nothing; removeAnt(coords)
\* repeated at once changes nothing unless the first cleared a guard above a
\* regular defender, and then it clears the regular slot and nothing else
C5_Amended ==
  /\ []C5_RemoveBee
  /\ [][\A coords \in GridCoords :
          RemoveAnt(coords) =>
            LET p == PlaceAt(coords)
                second == AntGame_removeAnt(Heap', coords)[1]
            IN  IF guard[p] # NoAnt /\ ant[p] # NoAnt
                  THEN /\ guard'[p] = NoAnt /\ ant'[p] = ant[p]
                       /\ second.ant = [ant' EXCEPT ![p] = NoAnt]
                       /\ second.guard = guard'
                       /\ second.bees = bees'
                  ELSE C5_SecondRemove(coords)]_vars

\* removeAnt("0,0") in the colony of one Place has just cleared a guard above a
\* regular defender, two attackers standing there
C5_Witness ==
  /\ cfg = Config(10, 1, 1, 0, 1, 1)
  /\ ret.op = "removeAnt"
  /\ guard[Tunnel(0, 0)] = NoAnt
  /\ ant[Tunnel(0, 0)] # NoAnt
  /\ Len(bees[Tunnel(0, 0)]) = 2

\* the Place d links of entrance from Place p, as the constructor of the
\* colony laid the chains out: a tunnel runs from step 0 at the queen's side to
\* its last step, the queen's Place leads into the last tunnel built, and the
\* Hive leads nowhere
Hop(p, d) ==
  IF d = 0 THEN p
  ELSE IF p \in Grid
         THEN IF p[3] + d < cfg.tunnelLength THEN Tunnel(p[2], p[3] + d) ELSE Undefined
  ELSE IF p = queenPlace /\ d <= cfg.tunnelLength
         THEN Tunnel(cfg.numTunnels - 1, d - 1)
  ELSE Undefined

\* the distances from min to max at which an attacker stands on the chain of p
Qualifying(p, max, min) ==
  {d \in min .. max : Hop(p, d) # Undefined /\ bees[Hop(p, d)] # <<>>}

\* C6: getClosestBee(maxDistance, minDistance) on Place p returns the attacker
\* that arrived first at the nearest Place between minDistance and maxDistance
\* links of entrance from p that holds one, and undefined when there is none;
\* the attacker returned is never nearer than minDistance, farther than
\* maxDistance, on the queen's side of p or in another tunnel
C6_ClosestBee ==
  ret.op = "getClosestBee" =>
    LET q == Qualifying(ret.p, ret.maxDistance, ret.minDistance)
    IN  IF q = {}
          THEN ret.value = 0
          ELSE LET d == CHOOSE n \in q : \A m \in q : n <= m
                   at == insect[ret.value].place
               IN  /\ ret.value = bees[Hop(ret.p, d)][1]
                   /\ at = Hop(ret.p, d)
                   /\ ret.p \in Grid => at \in Grid /\ at[2] = ret.p[2] /\ at[3] >= ret.p[3]
                   /\ \A n \in 0 .. MaxDistance :
                        at = Hop(ret.p, n) => ret.minDistance <= n /\ n <= ret.maxDistance

\* a query from a grid Place passed over an attacker nearer than minDistance and
\* returned one standing exactly maxDistance away
C6_Witness ==
  /\ ret.op = "getClosestBee"
  /\ ret.p \in Grid
  /\ ret.value # 0
  /\ ret.minDistance > 0
  /\ insect[ret.value].place = Hop(ret.p, ret.maxDistance)
  /\ \E d \in 0 .. ret.minDistance - 1 : bees[Hop(ret.p, d)] # <<>>

\* what the flooding phase may do to the defenders of Place p
C7_Flooded(p) ==
  IF isWater(p)
    THEN /\ guard'[p] = NoAnt
         /\ ant'[p] = IF ant[p].name = "Scuba" THEN ant[p] ELSE NoAnt
    ELSE ant'[p] = ant[p] /\ guard'[p] = guard[p]

\* the defenders a water Place may hold when takeTurn() returns
C7_Dry(p) == isWater(p) => guard[p] = NoAnt /\ ant[p].name \in {"undefined", "Scuba"}

\* C7: when takeTurn() returns no water Place holds a guard or a regular
\* defender other than a Scuba; the flooding phase leaves a Scuba in the regular
\* slot of a water Place, also under a guard it takes away, and removes no
\* defender of a Place that is not water
C7_Flooding ==
  [][/\ pc = "beesAct" /\ pc' = "invade" => \A p \in Grid : C7_Flooded(p)
     /\ pc = "invade" /\ pc' = "idle" => \A p \in Grid : C7_Dry(p)']_vars

\* takeTurn() has returned; in it a Scuba and the guard above it acted at a
\* water Place, no attacker was on the board, and the Scuba is left alone
C7_Witness ==
  /\ pc = "idle"
  /\ ret.op = "invade"
  /\ turn = 1
  /\ \E p \in Grid :
       /\ isWater(p)
       /\ acted = <<AntRef(p), GuardRef(p)>>
       /\ ant[p].name = "Scuba"
       /\ guard[p] = NoAnt

\* the units whose act() the step just taken invoked
ActedNow == {acted'[i] : i \in Len(acted) + 1 .. Len(acted')}

\* the attackers standing in some Place, in the state after the step
OnBoard == UNION {Range(bees'[q]) : q \in DOMAIN bees'}

\* what C8 says of one step and the Eater in the regular slot of Place p
C8_Eater(p) ==
  LET me == ant[p]
      t == me.turnsEating
  IN  IF AntRef(p) \in ActedNow
        THEN CASE t = 0 /\ bees[p] = <<>> ->
                    ant'[p] = me /\ bees' = bees /\ insect' = insect
               [] t = 0 /\ bees[p] # <<>> ->
                    /\ ant'[p] = [me EXCEPT !.turnsEating = 1, !.stomach = <<bees[p][1]>>]
                    /\ bees' = [bees EXCEPT ![p] = Tail(@)]
                    /\ insect' = [insect EXCEPT ![bees[p][1]].place = Stomach(p)]
               [] t \in 1 .. 3 ->
                    /\ ant'[p] = [me EXCEPT !.turnsEating = t + 1]
                    /\ bees' = bees /\ insect' = insect
               [] OTHER ->
                    /\ t = 4
                    /\ ant'[p] = [me EXCEPT !.turnsEating = 0, !.stomach = <<>>]
                    /\ bees' = bees
                    /\ \A b \in Range(me.stomach) : insect'[b].place = Undefined
        ELSE ant'[p].name = "Eater" /\ (\A c \in Calls : c.unit # AntRef(p)) =>
               /\ ant'[p].turnsEating = t
               /\ ant'[p].stomach = me.stomach

\* C8: the act() of an Eater with timer 0 swallows the first attacker of its
\* Place and sets the timer to 1; while the Eater takes no damage its timer
\* and its holding slot change in act() only, which moves the timer 1, 2, 3, 4
\* with the held attacker off the board and nothing else swallowed, and at 4
\* destroys the held attacker and sets the timer to 0; an attacker off the
\* board for good never comes back
C8_Digestion ==
  [][/\ \A p \in Grid : ant[p].name = "Eater" => C8_Eater(p)
     /\ \A p \in Grid : Range(ant'[p].stomach) \cap OnBoard = {}
     /\ \A b \in 1 .. Len(insect) :
          insect[b].place = Undefined =>
            insect'[b].place = Undefined /\ b \notin OnBoard]_vars

\* an Eater has destroyed one attacker, which was never damaged, and holds the
\* next one
C8_Witness ==
  \E p \in Grid, b \in 1 .. Len(insect) :
    /\ ant[p].name = "Eater"
    /\ ant[p].turnsEating = 1
    /\ ant[p].stomach # <<>>
    /\ insect[b].place = Undefined
    /\ insect[b].armor = cfg.beeArmor

\* C9: damage that leaves the armor of an Eater above 0 at timer 1 puts the
\* held attacker last in the list of the Eater's Place with its armor as it
\* was, empties the holding slot and sets the timer to 3; at any other timer
\* it changes neither the holding slot nor the timer
C9_Regurgitate ==
  [][\A c \in Calls :
       c.unit.kind = "Ant" /\ ant[c.unit.p].name = "Eater" /\ c.after > 0 =>
         LET p == c.unit.p
             me == ant[p]
         IN  IF me.turnsEating = 1
               THEN /\ ant'[p] = [me EXCEPT !.armor = c.after, !.stomach = <<>>,
                                            !.turnsEating = 3]
                    /\ bees'[p] = Append(bees[p], me.stomach[1])
                    /\ insect'[me.stomach[1]] =
                         [insect[me.stomach[1]] EXCEPT !.place = p]
               ELSE ant'[p] = [me EXCEPT !.armor = c.after]]_vars

\* an Eater stung once has just coughed up the attacker it held, behind the
\* one that stung it
C9_Witness ==
  \E p \in Grid :
    /\ ant[p].name = "Eater"
    /\ Len(calls) = 1
    /\ calls[1].unit = AntRef(p)
    /\ calls[1].after > 0
    /\ ant[p].turnsEating = 3
    /\ ant[p].stomach = <<>>
    /\ Len(bees[p]) = 2
    /\ insect[bees[p][1]].armor = cfg.beeArmor

\* the defenders of Place p, a shielded one before its guard
Defenders(p) ==
  (IF ant[p] # NoAnt THEN <<AntRef(p)>> ELSE <<>>)
    \o (IF guard[p] # NoAnt THEN <<GuardRef(p)>> ELSE <<>>)

\* the defenders among the units of a history of act() calls
AntsOf(units) == SelectSeq(units, LAMBDA u : u.kind # "Bee")

\* the Places whose defenders have not acted yet in the defenders' phase
Waiting(queue) == {queue[k].p : k \in 1 .. Len(queue)}

\* C10: the defenders' phase of takeTurn() starts with no act() invoked and
\* every Place that holds a defender due exactly once; each of its steps
\* invokes act() once on each defender of the Place that is due next, a
\* shielded one immediately before its guard, and leaves the defenders of the
\* Places still due as they are; nothing else in the turn invokes a
\* defender's act()
C10_Step ==
  /\ pc = "idle" /\ pc' = "antsAct" =>
       /\ acted' = <<>>
       /\ \A p \in Grid :
            Cardinality({k \in 1 .. Len(antQueue') : antQueue'[k].p = p})
              = IF Defenders(p) # <<>> THEN 1 ELSE 0
  /\ pc = "antsAct" /\ antQueue # <<>> =>
       /\ acted' = acted \o Defenders(Head(antQueue).p)
       /\ Head(antQueue).p \notin Waiting(antQueue')
       /\ \A p \in Waiting(antQueue') :
            ant'[p] = ant[p] /\ guard'[p] = guard[p] /\ Defenders(p) # <<>>
       /\ \A i, j \in 1 .. Len(acted') : acted'[i] = acted'[j] => i = j
  /\ pc \in {"antsAct", "beesAct", "invade"} /\ antQueue = <<>> =>
       AntsOf(acted') = AntsOf(acted)

C10_EveryAntActs == [][C10_Step]_vars

\* the defenders' phase is over: a shielded defender acted, then its guard
C10_Witness ==
  /\ pc = "beesAct"
  /\ \E p \in Grid :
       /\ ant[p] # NoAnt
       /\ guard[p] # NoAnt
       /\ acted = <<AntRef(p), GuardRef(p)>>

\* what C11 says of one step and the defender in the regular slot of Place p,
\* a Thrower or Scuba whose boost is BugSpray and whose act() the step invoked
C11_Sprayer(p) ==
  /\ bees'[p] = <<>>
  /\ \A q \in DOMAIN bees : q # p => bees'[q] = bees[q]
  /\ \A b \in 1 .. Len(insect) : insect[b].place # p => insect'[b] = insect[b]
  /\ ant'[p] = NoAnt

\* C11: when a Thrower or Scuba boosted with BugSpray acts, no attacker is left
\* in its Place, the attackers of the other Places are untouched and the
\* sprayer itself is off the board, shielded by a guard or not
C11_Spray ==
  [][\A p \in Grid :
       /\ AntRef(p) \in ActedNow
       /\ ant[p].name \in {"Thrower", "Scuba"}
       /\ ant[p].boost = "BugSpray"
       => C11_Sprayer(p)]_vars

\* C11 for a sprayer that no guard shields
C11_SprayUnshielded ==
  [][\A p \in Grid :
       /\ AntRef(p) \in ActedNow
       /\ ant[p].name \in {"Thrower", "Scuba"}
       /\ ant[p].boost = "BugSpray"
       /\ guard[p] = NoAnt
       => C11_Sprayer(p)]_vars

\* the state of the engine but for the histories of the model
engine == <<food, ant, guard, bees, insect, boosts, turn, waves>>

\* C12: a deployAnt that returns an error (unknown ant type, illegal location,
\* not enough food, tunnel already occupied) changes nothing: not the food,
\* not a slot or an attacker list of any Place, not the boosts, not the turn
C12_DeployError ==
  [][ret'.op = "deployAnt" /\ ret'.value # "undefined" => UNCHANGED engine]_vars

\* a deployAnt has just been refused for an occupied slot, an attacker
\* standing on the board
C12_Witness ==
  /\ ret.op = "deployAnt"
  /\ ret.value = "tunnel already occupied"
  /\ bees[Tunnel(0, 0)] # <<>>

\* the coordinates given whose row, or whose column, is a number past the grid
OutOfGrid ==
  {coords \in BadCoords :
     /\ Len(coords) = 2
     /\ KeyIndex(coords[1]) >= 0
     /\ KeyIndex(coords[2]) >= 0}

\* the operation returned 'illegal location' and changed nothing
C13_Illegal == ret'.value = "illegal location" /\ UNCHANGED engine

\* C13: deployAnt with a type name it knows, removeAnt and boostAnt, given a
\* row or a column outside the grid, return 'illegal location' whatever the
\* food and the boost name, and change nothing
C13_IllegalLocation ==
  [][\A coords \in OutOfGrid :
       /\ \A antType \in AntTypes :
            AntOfType(antType) # NoAnt /\ DeployAnt(antType, coords) => C13_Illegal
       /\ RemoveAnt(coords) => C13_Illegal
       /\ \A boostType \in BoostTypes : BoostAnt(boostType, coords) => C13_Illegal]_vars

\* C13 for a row outside the grid only
C13_IllegalRow ==
  [][\A coords \in OutOfGrid :
       KeyIndex(coords[1]) \notin Tunnels(cfg) =>
         /\ \A antType \in AntTypes :
              AntOfType(antType) # NoAnt /\ DeployAnt(antType, coords) => C13_Illegal
         /\ RemoveAnt(coords) => C13_Illegal
         /\ \A boostType \in BoostTypes : BoostAnt(boostType, coords) => C13_Illegal]_vars

\* the type names deployAnt knows, in lower case, with the name, the cost and
\* the armor of the defender each stands for
Recognized == {"grower", "thrower", "eater", "scuba", "guard"}

Fresh(kind) ==
  CASE kind = "grower"  -> NewAnt("Grower", 1, 1)
    [] kind = "thrower" -> NewAnt("Thrower", 1, 4)
    [] kind = "eater"   -> NewAnt("Eater", 2, 4)
    [] kind = "scuba"   -> NewAnt("Scuba", 1, 5)
    [] kind = "guard"   -> NewAnt("Guard", 2, 4)

\* the step is a call deployAnt(antType, coords)
Deploys(antType, coords) ==
  /\ pc = "idle"
  /\ ret'.op = "deployAnt"
  /\ <<Heap', ret'.value>> = AntGame_deployAnt(Heap, antType, coords)

\* what C14 says of deployAnt(antType, coords)
C14_Deployed(antType, coords) ==
  LET kind == ToLowerCase(antType)
      p == Tunnel(KeyIndex(coords[1]), KeyIndex(coords[2]))
      free == IF kind = "guard" THEN guard[p] = NoAnt ELSE ant[p] = NoAnt
      ok == /\ kind \in Recognized
            /\ coords \in GridCoords
            /\ food >= Fresh(kind).foodCost
            /\ free
  IN  /\ ret'.value = "undefined" <=> ok
      /\ ok =>
           /\ food' = food - Fresh(kind).foodCost
           /\ IF kind = "guard"
                THEN guard' = [guard EXCEPT ![p] = Fresh(kind)] /\ ant' = ant
                ELSE ant' = [ant EXCEPT ![p] = Fresh(kind)] /\ guard' = guard
           /\ UNCHANGED <<bees, insect, boosts, turn, waves>>

\* C14: deployAnt succeeds exactly when the type name is known, the
\* coordinates are in the grid, the food covers the cost of the type (Grower
\* 1, Thrower 4, Eater 4, Scuba 5, Guard 4) and the slot of the Place for the
\* type (guard slot for a Guard, regular slot otherwise) is empty; it then
\* takes exactly the cost from the food and puts a new defender of the type,
\* with armor 1, 1, 2, 1, 2, in that slot, and changes nothing else
C14_Deploy ==
  [][\A antType \in AntTypes, coords \in GridCoords \cup BadCoords :
       Deploys(antType, coords) => C14_Deployed(antType, coords)]_vars

\* a Guard and a regular defender share a Place, the last deployAnt having
\* succeeded and used up the food
C14_Witness ==
  /\ ret.op = "deployAnt"
  /\ ret.value = "undefined"
  /\ guard[Tunnel(0, 0)] = GuardAnt
  /\ ant[Tunnel(0, 0)] # NoAnt
  /\ food = 0

\* the step is a call removeAnt(coords)
Removes(coords) ==
  /\ pc = "idle"
  /\ ret'.op = "removeAnt"
  /\ <<Heap', ret'.value>> = AntGame_removeAnt(Heap, coords)

\* C15: removeAnt with coordinates in the grid returns no error, clears the
\* guard slot of the Place when it holds a guard and the regular slot
\* otherwise, and leaves the other slot, the food, the boosts, every attacker
\* list and the turn as they are
C15_Remove ==
  [][\A coords \in GridCoords :
       Removes(coords) =>
         LET p == Tunnel(KeyIndex(coords[1]), KeyIndex(coords[2]))
         IN  /\ ret'.value = "undefined"
             /\ IF guard[p] # NoAnt
                  THEN guard' = [guard EXCEPT ![p] = NoAnt] /\ ant' = ant
                  ELSE ant' = [ant EXCEPT ![p] = NoAnt] /\ guard' = guard
             /\ UNCHANGED <<food, boosts, bees, insect, turn, waves>>]_vars

\* removeAnt("0,0") has just cleared the guard above a regular defender, the
\* food spent on both not given back
C15_Witness ==
  /\ ret.op = "removeAnt"
  /\ ret.value = "undefined"
  /\ turn = 0
  /\ food = 0
  /\ guard[Tunnel(0, 0)] = NoAnt
  /\ ant[Tunnel(0, 0)] = GrowerAnt

\* the step is a call boostAnt(boostType, coords)
Boosts(boostType, coords) ==
  /\ pc = "idle"
  /\ ret'.op = "boostAnt"
  /\ <<Heap', ret'.value>> = AntGame_boostAnt(Heap, boostType, coords)

\* what C16 says of boostAnt(boostType, coords), coords being in the grid
C16_Boosted(boostType, coords) ==
  LET p == Tunnel(KeyIndex(coords[1]), KeyIndex(coords[2]))
      inStock == boostType \in DOMAIN boosts /\ boosts[boostType] >= 1
  IN  IF ~inStock
        THEN ret'.value = "no such boost" /\ UNCHANGED <<ant, guard>>
      ELSE IF ant[p] = NoAnt /\ guard[p] = NoAnt
        THEN ret'.value = "no Ant at location" /\ UNCHANGED <<ant, guard>>
      ELSE /\ ret'.value = "undefined"
           /\ IF guard[p] # NoAnt
                THEN guard' = [guard EXCEPT ![p].boost = boostType] /\ ant' = ant
                ELSE ant' = [ant EXCEPT ![p].boost = boostType] /\ guard' = guard

\* C16: boostAnt with coordinates in the grid fails and sets no boost when the
\* boost is unknown or out of stock, which it tests first, or when the Place
\* holds no defender; otherwise it succeeds and sets the boost of the guard
\* when the Place holds one, of the regular defender otherwise, whatever
\* boost that defender had, and of no other defender
C16_Boost ==
  [][\A boostType \in BoostTypes, coords \in GridCoords :
       Boosts(boostType, coords) => C16_Boosted(boostType, coords)]_vars

\* C16 for the boost names that no object inherits
C16_BoostOwnNames ==
  [][\A boostType \in BoostTypes \ ObjectPrototype, coords \in GridCoords :
       Boosts(boostType, coords) => C16_Boosted(boostType, coords)]_vars

\* boostAnt has just given a guard a boost other than the one of the defender
\* it shields
C16_Witness ==
  /\ ret.op = "boostAnt"
  /\ ret.value = "undefined"
  /\ guard[Tunnel(0, 0)].boost = "IcyLeaf"
  /\ ant[Tunnel(0, 0)].boost = "StickyLeaf"

\* C17: boostAnt leaves every count of the boost inventory as it is, also
\* when it succeeds; no step of deployAnt, removeAnt, boostAnt or takeTurn
\* lowers a count or drops a name, so that a name getBoostNames() once lists
\* is listed ever after
C17_BoostsKept ==
  [][/\ ret'.op = "boostAnt" => boosts' = boosts
     /\ \A n \in DOMAIN boosts : n \in DOMAIN boosts' /\ boosts'[n] >= boosts[n]
     /\ getBoostNames \subseteq getBoostNames']_vars

\* a boost that a Grower found has just been given to a defender and is still
\* counted twice in the inventory
C17_Witness ==
  /\ ret.op = "boostAnt"
  /\ ret.value = "undefined"
  /\ boosts["StickyLeaf"] = 2
  /\ \E p \in Grid : ant[p].boost = "StickyLeaf" \/ guard[p].boost = "StickyLeaf"

\* C18: Hive.invade moves every bee of the wave scheduled for the current turn
\* out of the Hive and into the last Place of some tunnel, the Hive's count
\* drops by the size of the wave, and the wave is returned; with no wave
\* scheduled it returns the empty list and moves no bee.
C18_Entrances == {Tunnel(t, cfg.tunnelLength - 1) : t \in 0 .. cfg.numTunnels - 1}

C18_Invade ==
  [][pc = "invade" =>
       IF turn \in DOMAIN waves
         THEN /\ ret'.wave = waves[turn]
              /\ Len(bees'[hive]) = Len(bees[hive]) - Len(waves[turn])
              /\ \A b \in Range(waves[turn]) :
                    /\ b \in Range(bees[hive])
                    /\ b \notin Range(bees'[hive])
                    /\ \E p \in C18_Entrances :
                         /\ b \in Range(bees'[p])
                         /\ b \notin Range(bees[p])
                         /\ insect'[b].place = p
                    /\ \A p \in DOMAIN bees \ (C18_Entrances \cup {hive}) :
                         b \notin Range(bees'[p])
         ELSE /\ ret'.wave = <<>>
              /\ UNCHANGED <<bees, insect, ant, guard>>]_vars

\* a wave of two has just entered, one bee at the mouth of each tunnel
C18_Witness ==
  /\ ret.op = "invade"
  /\ Len(ret.wave) = 2
  /\ \A p \in C18_Entrances : \E b \in Range(ret.wave) : b \in Range(bees[p])

\* a turn has just ended with no wave scheduled and bees still waiting
C18_WitnessNoWave ==
  /\ ret.op = "invade"
  /\ ret.wave = <<>>
  /\ bees[hive] # <<>>

\* what C19 says of the act() of attacker b, standing with a defender
C19_Target(p) == IF guard[p] # NoAnt THEN GuardRef(p) ELSE AntRef(p)

C19_Stung(b, lost) ==
  LET p == insect[b].place
      target == C19_Target(p)
      defenders == {c \in Calls : c.unit.kind \in {"Ant", "Guard"}}
  IN  /\ \E c \in defenders : defenders = {c} /\ c.unit = target /\ lost[c]
      /\ Len(calls') = 1
      /\ target.kind = "Guard" /\ guard'[p] # NoAnt =>
           guard'[p].armor = guard[p].armor - insect[b].damage
      /\ target.kind = "Ant" /\ ant'[p] # NoAnt =>
           ant'[p].armor = ant[p].armor - insect[b].damage
      /\ guard[p] # NoAnt => ant'[p] = ant[p]
      /\ \A q \in Grid \ {p} : ant'[q] = ant[q] /\ guard'[q] = guard[q]

C19_Stinging(b) ==
  /\ pc = "beesAct"
  /\ beeQueue # <<>>
  /\ b = Head(beeQueue)
  /\ insect[b].place \in Grid
  /\ Place_getAnt(Heap, insect[b].place) # NoAnt
  /\ insect[b].status # "cold"

\* C19: when an attacker that is not cold acts where a defender stands, exactly
\* one defender loses armor, the guard if there is one and else the regular
\* occupant, and it loses exactly the attacker's damage; a regular occupant
\* under a guard is left as it was.
C19_Sting ==
  [][\A b \in DOMAIN insect :
       C19_Stinging(b) =>
         C19_Stung(b, [c \in Calls |-> c.before - c.after = insect[b].damage])]_vars

\* the same with the loss of armor left open when the sting takes the last
\* armor of an Eater
C19_StingButEater ==
  [][\A b \in DOMAIN insect :
       C19_Stinging(b) =>
         C19_Stung(b, [c \in Calls |->
                         \/ c.before - c.after = insect[b].damage
                         \/ /\ c.unit.kind = "Ant"
                            /\ ant[c.unit.p].name = "Eater"
                            /\ c.expired
                            /\ c.before - c.after = 2 * insect[b].damage])]_vars

\* a guard has just been stung over the ant it shields
C19_Witness ==
  /\ pc = "beesAct"
  /\ Len(calls) = 1
  /\ calls[1].unit.kind = "Guard"
  /\ ant[calls[1].unit.p] # NoAnt

\* the Place one step nearer the queen: the queen's own from index 0
C20_Exit(p) == IF p[3] = 0 THEN queenPlace ELSE Tunnel(p[2], p[3] - 1)

C20_Advancing(b) ==
  /\ pc = "beesAct"
  /\ beeQueue # <<>>
  /\ b = Head(beeQueue)
  /\ insect[b].place \in Grid
  /\ Place_getAnt(Heap, insect[b].place) = NoAnt
  /\ insect[b].armor > 0
  /\ insect[b].status # "stuck"

\* C20: when an attacker with armor > 0 that is not stuck acts where no defender
\* stands, it leaves the attacker list of its Place and is appended to the list
\* of the Place one step nearer the queen, the queen's own Place from index 0;
\* no other list changes.
C20_Advance ==
  [][\A b \in DOMAIN insect :
       C20_Advancing(b) =>
         LET p == insect[b].place
             e == C20_Exit(p)
         IN  /\ b \in Range(bees[p])
             /\ bees'[p] = SelectSeq(bees[p], LAMBDA x : x # b)
             /\ bees'[e] = Append(bees[e], b)
             /\ insect'[b].place = e
             /\ \A q \in DOMAIN bees \ {p, e} : bees'[q] = bees[q]
             /\ UNCHANGED <<ant, guard>>]_vars

\* an attacker has just advanced from index 0 into the queen's Place, behind
\* one that was there before it
C20_Witness ==
  /\ pc = "beesAct"
  /\ calls = <<>>
  /\ Len(bees[queenPlace]) = 2
  /\ acted # <<>>
  /\ acted[Len(acted)] = BeeRef(bees[queenPlace][2])

\* the attacker whose act() the next callback of beesAct invokes
Acting(b) ==
  /\ pc = "beesAct"
  /\ beeQueue # <<>>
  /\ b = Head(beeQueue)

Blocked(b) == Place_getAnt(Heap, insect[b].place) # NoAnt

\* what C21 says of one act() of attacker b
C21_Act(b) ==
  /\ insect'[b].status = "undefined"
  /\ insect[b].status = "stuck" /\ ~Blocked(b) =>
       /\ insect'[b].place = insect[b].place
       /\ bees' = bees
  /\ insect[b].status = "cold" /\ Blocked(b) =>
       /\ calls' = <<>>
       /\ ant' = ant
       /\ guard' = guard

\* the attackers standing on the grid with a status
C21_Marked == {b \in DOMAIN insect : insect[b].place \in Grid /\ insect[b].status # "undefined"}

\* C21: a stuck attacker that acts unblocked stays in its Place, a cold attacker
\* that acts blocked reduces no armor, every act() leaves the attacker's status
\* none, and so no attacker on the grid starts a turn with a status.
C21_Status ==
  [][/\ \A b \in DOMAIN insect : Acting(b) => C21_Act(b)
     /\ pc = "idle" /\ pc' = "antsAct" => C21_Marked = {}]_vars

\* the part of C21 that is about one act()
C21_StatusOfAct == [][\A b \in DOMAIN insect : Acting(b) => C21_Act(b)]_vars

\* the Thrower or Scuba, holding no spray, whose act() the step invokes
Throwing(p) ==
  /\ AntRef(p) \in ActedNow
  /\ ant[p].name \in {"Thrower", "Scuba"}
  /\ ant[p].boost # "BugSpray"

ThrowRange(p) == IF ant[p].boost = "FlyingLeaf" THEN 5 ELSE 3

InRange(p) == Qualifying(p, ThrowRange(p), 0)

\* the attacker a throw from p is due to hit
Target(p) == bees[Hop(p, CHOOSE n \in InRange(p) : \A m \in InRange(p) : n <= m)][1]

\* the attackers whose armor the step changed
Hit == {b \in DOMAIN insect : insect'[b].armor # insect[b].armor}

\* C22: a Thrower or Scuba that acts without the spray boost damages at most
\* one attacker, the first of the nearest Place holding one within 3 links of
\* entrance, 5 with the flight boost; that attacker loses exactly 1 armor, no
\* attacker out of range or on the queen's side is damaged, and with no
\* attacker in range nothing changes.
C22_Throw ==
  [][\A p \in Grid :
       Throwing(p) =>
         IF InRange(p) = {}
           THEN UNCHANGED <<food, boosts, ant, guard, bees, insect>>
           ELSE /\ Hit = {Target(p)}
                /\ insect'[Target(p)].armor = insect[Target(p)].armor - 1
                /\ \A b \in Hit :
                     /\ insect[b].place \in Grid
                     /\ insect[b].place[2] = p[2]
                     /\ insect[b].place[3] >= p[3]
                     /\ insect[b].place[3] - p[3] <= ThrowRange(p)
                /\ \A q \in DOMAIN bees :
                     bees'[q] = SelectSeq(bees[q], LAMBDA b : b \notin Hit \/ insect'[b].armor > 0)]_vars

\* a leaf has just been thrown with the flight boost at an attacker more than
\* 3 links away
C22_Witness ==
  /\ pc = "antsAct"
  /\ acted # <<>>
  /\ Len(calls) = 1
  /\ calls[1].unit.kind = "Bee"
  /\ calls[1].after = calls[1].before - 1
  /\ LET by == acted[Len(acted)]
         at == insect[calls[1].unit.id].place
     IN  /\ by.kind = "Ant"
         /\ at \in Grid
         /\ at[3] - by.p[3] > 3

\* C23: a Thrower or Scuba that acts holding the flight, stick or freeze boost
\* holds no boost afterwards when an attacker was in range, and the same boost
\* when none was.
C23_Consumed ==
  [][\A p \in Grid :
       Throwing(p) /\ ant[p].boost \in {"FlyingLeaf", "StickyLeaf", "IcyLeaf"} =>
         /\ ant'[p].name = ant[p].name
         /\ ant'[p].boost = IF InRange(p) # {} THEN "undefined" ELSE ant[p].boost]_vars

\* a Scuba has just thrown a leaf more than 3 links, which takes the flight
\* boost, and holds no boost
C23_Witness ==
  /\ pc = "antsAct"
  /\ acted # <<>>
  /\ Len(calls) = 1
  /\ calls[1].unit.kind = "Bee"
  /\ LET by == acted[Len(acted)]
         at == insect[calls[1].unit.id].place
     IN  /\ by.kind = "Ant"
         /\ ant[by.p].name = "Scuba"
         /\ ant[by.p].boost = "undefined"
         /\ at \in Grid
         /\ at[3] - by.p[3] > 3

\* a defender has just acted with the flight boost, hit nothing and kept it,
\* an attacker standing farther than 5 links up the tunnel
C23_WitnessKept ==
  /\ pc = "antsAct"
  /\ acted # <<>>
  /\ calls = <<>>
  /\ LET by == acted[Len(acted)]
     IN  /\ by.kind = "Ant"
         /\ ant[by.p].boost = "FlyingLeaf"
         /\ \E q \in Grid : q[2] = by.p[2] /\ q[3] - by.p[3] > 5 /\ bees[q] # <<>>

\* the boosts a Grower may find
C24_Finds == {"FlyingLeaf", "StickyLeaf", "IcyLeaf", "BugSpray"}

\* the six effects of a Grower's act()
C24_Effects ==
  {[food |-> food + 1, boosts |-> boosts], [food |-> food, boosts |-> boosts]}
    \cup {[food |-> food, boosts |-> [boosts EXCEPT ![n] = @ + 1]] : n \in C24_Finds}

\* C24: a Grower's act() adds 1 to the food, or adds 1 to the count of exactly
\* one of the four boosts, or changes nothing; it lowers neither the food nor a
\* count, and changes no defender, no defender's boost and no attacker.
C24_Grows ==
  [][\A p \in Grid :
       AntRef(p) \in ActedNow /\ ant[p].name = "Grower" =>
         /\ [food |-> food', boosts |-> boosts'] \in C24_Effects
         /\ food' >= food
         /\ \A n \in DOMAIN boosts : boosts'[n] >= boosts[n]
         /\ UNCHANGED <<ant, guard, bees, insect>>]_vars

\* a Grower has just found a spray, the first of the inventory
C24_Witness ==
  /\ pc = "antsAct"
  /\ acted # <<>>
  /\ acted[Len(acted)].kind = "Ant"
  /\ ant[acted[Len(acted)].p].name = "Grower"
  /\ boosts["BugSpray"] = 1
  /\ food = cfg.startingFood - 1

\* the attackers an Eater held when it was removed: their Place is a stomach
\* that no Eater on the grid has
Lost ==
  {b \in DOMAIN insect :
     /\ insect[b].place \notin DOMAIN bees
     /\ insect[b].place # Undefined
     /\ \A p \in Grid : b \notin Range(ant[p].stomach)}

\* what C25 says of the step that takes the last armor of the Eater of Place p
C25_Removed(p) ==
  LET me == ant[p]
  IN  /\ ant'[p] = NoAnt
      /\ IF me.stomach # <<>> /\ me.turnsEating \in {1, 2}
           THEN /\ bees'[p] = Append(bees[p], me.stomach[1])
                /\ insect'[me.stomach[1]].place = p
           ELSE bees'[p] = bees[p]
      /\ \A b \in Range(me.stomach) :
           me.turnsEating \in {3, 4} => b \notin OnBoard /\ insect'[b].place = Stomach(p)

\* C25: when a call of reduceArmor leaves an Eater with armor <= 0 the Eater is
\* removed from its Place, the attacker it holds is appended to the attackers
\* of that Place exactly when turnsEating is 1 or 2, and an attacker held at
\* turnsEating 3 or 4 is not returned and never stands in a Place again.
C25_Expires ==
  [][/\ \A p \in Grid :
          ant[p].name = "Eater" /\ Expired(AntRef(p)) => C25_Removed(p)
     /\ \A b \in Lost : b \notin OnBoard /\ insect'[b] = insect[b]]_vars

\* an Eater has just been removed at turnsEating 1 or 2 and the attacker it
\* held stands behind the one that stung
C25_Witness ==
  /\ pc = "beesAct"
  /\ Len(calls) = 1
  /\ calls[1].unit.kind = "Ant"
  /\ calls[1].expired
  /\ ant[calls[1].unit.p] = NoAnt
  /\ Len(bees[calls[1].unit.p]) = 2

\* an attacker is lost with the Eater that held it, and another Eater stands
\* in the same Place
C25_WitnessLost ==
  /\ Lost # {}
  /\ \E p \in Grid : ant[p].name = "Eater"

\* the Eater of Place p acts after a regurgitation has set turnsEating to 3:
\* its stomach is empty, which it is at 3 in no other way
C26_AfterCoughUp(p) ==
  /\ AntRef(p) \in ActedNow
  /\ ant[p].name = "Eater"
  /\ ant[p].turnsEating = 3
  /\ ant[p].stomach = <<>>

\* the damage that leaves the Eater of Place p alive at turnsEating 1
C26_CoughUp(p) ==
  /\ ant[p].name = "Eater"
  /\ ant[p].turnsEating = 1
  /\ \E c \in Calls : c.unit = AntRef(p) /\ ~c.expired

\* C26 as claimed: the act() of an Eater that follows a regurgitation destroys
\* the attacker the Eater had held, which stands in the Eater's Place
C26_AsClaimed ==
  [][\A p \in Grid :
       C26_AfterCoughUp(p) /\ bees[p] # <<>> =>
         \E b \in Range(bees[p]) : b \notin OnBoard]_vars

\* C26 as amended: the attacker regurgitated at turnsEating 1 stands unharmed
\* at the end of the attackers of the Eater's Place, turnsEating being 3, and
\* the Eater's next act() destroys no attacker: it takes turnsEating to 4 and
\* changes nothing else.
C26_Amended ==
  [][\A p \in Grid :
       /\ C26_CoughUp(p) =>
            LET eaten == ant[p].stomach[1]
            IN  /\ ant'[p].turnsEating = 3
                /\ ant'[p].stomach = <<>>
                /\ bees'[p] = Append(bees[p], eaten)
                /\ insect'[eaten] = [insect[eaten] EXCEPT !.place = p]
       /\ C26_AfterCoughUp(p) =>
            /\ ant' = [ant EXCEPT ![p].turnsEating = 4]
            /\ UNCHANGED <<guard, bees, insect, food, boosts>>]_vars

\* an Eater has just acted after a regurgitation: turnsEating is 4, its stomach
\* is empty, and the attacker it had held stands in its Place
C26_Witness ==
  /\ pc = "antsAct"
  /\ acted # <<>>
  /\ LET by == acted[Len(acted)]
     IN  /\ by.kind = "Ant"
         /\ ant[by.p].name = "Eater"
         /\ ant[by.p].turnsEating = 4
         /\ ant[by.p].stomach = <<>>
         /\ Len(bees[by.p]) = 2

\* C27: an Eater that acts at turnsEating 0 swallows the attacker that arrived
\* first in its own Place, whatever its armor, and no other: that attacker
\* leaves the attackers of the Place and is alone in the stomach, turnsEating
\* being 1; with no attacker in its Place the Eater swallows none from another
\* Place and turnsEating stays 0.
C27_Swallow ==
  [][\A p \in Grid :
       AntRef(p) \in ActedNow /\ ant[p].name = "Eater" /\ ant[p].turnsEating = 0 =>
         IF bees[p] # <<>>
           THEN LET target == bees[p][1]
                IN  /\ ant' = [ant EXCEPT ![p].stomach = <<target>>, ![p].turnsEating = 1]
                    /\ bees' = [bees EXCEPT ![p] = Tail(@)]
                    /\ insect' = [insect EXCEPT ![target].place = Stomach(p)]
           ELSE UNCHANGED <<ant, bees, insect>>]_vars

\* an Eater has just swallowed an attacker weakened by a leaf and left the
\* other attacker of its Place where it was
C27_Witness ==
  /\ pc = "antsAct"
  /\ acted # <<>>
  /\ LET by == acted[Len(acted)]
     IN  /\ by.kind = "Ant"
         /\ ant[by.p].name = "Eater"
         /\ ant[by.p].turnsEating = 1
         /\ Len(ant[by.p].stomach) = 1
         /\ insect[ant[by.p].stomach[1]].armor < cfg.beeArmor
         /\ bees[by.p] # <<>>

\* an Eater has just acted at turnsEating 0 with the attackers one Place up the
\* tunnel and none in its own
C27_WitnessNone ==
  /\ pc = "antsAct"
  /\ acted # <<>>
  /\ LET by == acted[Len(acted)]
     IN  /\ by = AntRef(Tunnel(0, 0))
         /\ ant[by.p].name = "Eater"
         /\ ant[by.p].turnsEating = 0
         /\ bees[Tunnel(0, 1)] # <<>>

\* C28: in every state each Eater on the grid has turnsEating in 0 .. 4 and at
\* most one attacker in its stomach, none at turnsEating 0 and exactly one at
\* turnsEating 1 and 2.
C28_Timer ==
  \A p \in Grid :
    ant[p].name = "Eater" =>
      /\ ant[p].turnsEating \in 0 .. 4
      /\ Len(ant[p].stomach) <= 1
      /\ ant[p].turnsEating = 0 => ant[p].stomach = <<>>
      /\ ant[p].turnsEating \in {1, 2} => Len(ant[p].stomach) = 1
      /\ \A i \in 1 .. Len(ant[p].stomach) : insect[ant[p].stomach[i]].place = Stomach(p)

\* an Eater stung at turnsEating 2 still holds its attacker
C28_Witness ==
  \E p \in Grid :
    /\ ant[p].name = "Eater"
    /\ ant[p].turnsEating = 2
    /\ ant[p].armor = 1
    /\ Len(ant[p].stomach) = 1

\* an Eater is back at turnsEating 0 after a digestion
C28_WitnessDigested ==
  \E p \in Grid :
    /\ ant[p].name = "Eater"
    /\ ant[p].turnsEating = 0
    /\ \E b \in DOMAIN insect : insect[b].place = Undefined

\* a defender, guard or regular, stands in Place p
Defended(p) == p \in Grid /\ (ant[p] # NoAnt \/ guard[p] # NoAnt)

\* C29: an attacker that acts in a Place where a defender stands, guard or
\* regular, is in the same Place afterwards, whatever its status; if it is
\* cold it reduces no armor, and if it is not, stuck or not, it stings once.
C29_Blocked ==
  [][\A b \in DOMAIN insect :
       Acting(b) /\ Defended(insect[b].place) =>
         LET p == insect[b].place
         IN  /\ insect'[b].place = p
             /\ b \in Range(bees'[p])
             /\ \A q \in DOMAIN bees \ {p} : bees'[q] = bees[q]
             /\ IF insect[b].status = "cold"
                  THEN calls' = <<>> /\ UNCHANGED <<ant, guard, bees>>
                  ELSE /\ Len(calls') = 1
                       /\ calls'[1].unit = C19_Target(p)
                       /\ calls'[1].amount = insect[b].damage]_vars

\* an attacker has just acted under a Guard that stands alone, reduced no
\* armor, which is what a cold one does, and stayed
C29_Witness ==
  /\ pc = "beesAct"
  /\ acted # <<>>
  /\ calls = <<>>
  /\ LET by == acted[Len(acted)]
     IN  /\ by.kind = "Bee"
         /\ insect[by.id].place \in Grid
         /\ guard[insect[by.id].place] # NoAnt
         /\ ant[insect[by.id].place] = NoAnt

\* the attackers among the units of a history of act() calls, in order
BeesOf(units) ==
  LET among == SelectSeq(units, LAMBDA u : u.kind = "Bee")
  IN  [k \in 1 .. Len(among) |-> among[k].id]

\* attacker a is enumerated before attacker b: by tunnel, then by index in the
\* tunnel, then by arrival in the Place
Before(a, b) ==
  LET pa == insect[a].place
      pb == insect[b].place
  IN  \/ pa[2] < pb[2]
      \/ pa[2] = pb[2] /\ pa[3] < pb[3]
      \/ pa = pb /\ IndexOf(bees[pa], a) < IndexOf(bees[pa], b)

\* the attackers standing on the grid
OnGrid == UNION {Range(bees[p]) : p \in Grid}

\* C30: the attackers' phase of takeTurn() starts with every attacker on the
\* grid due once, in the order of tunnel, index in the tunnel and arrival in
\* the Place; each of its steps invokes act() on the attacker due next, which
\* stands on the grid, and on no other; the phase ends when none is due, so an
\* attacker that is regurgitated or enters during the turn, or stands in the
\* queen's Place, in the Hive or in a stomach, does not act; nothing else in
\* the turn invokes an attacker's act().
C30_Step ==
  /\ pc = "antsAct" /\ pc' = "beesAct" =>
       /\ BeesOf(acted') = <<>>
       /\ Range(beeQueue') = OnGrid
       /\ Len(beeQueue') = Cardinality(OnGrid)
       /\ \A i, j \in 1 .. Len(beeQueue') : i < j => Before(beeQueue'[i], beeQueue'[j])
  /\ pc = "beesAct" /\ pc' = "beesAct" =>
       /\ beeQueue # <<>>
       /\ BeesOf(acted') = Append(BeesOf(acted), Head(beeQueue))
       /\ beeQueue' = Tail(beeQueue)
       /\ insect[Head(beeQueue)].place \in Grid
  /\ pc = "beesAct" /\ pc' = "invade" => beeQueue = <<>>
  /\ ~(pc = "beesAct" /\ pc' = "beesAct") /\ pc' # "antsAct" =>
       BeesOf(acted') = BeesOf(acted)
  /\ pc' = "antsAct" => BeesOf(acted') = <<>>

C30_EveryBeeActs == [][C30_Step]_vars

\* the attackers' phase is over: the attacker that was on the grid acted, the
\* one an Eater coughed up during the phase stands on the grid and did not
C30_Witness ==
  /\ pc = "invade"
  /\ Len(BeesOf(acted)) = 1
  /\ \E b \in OnGrid : b \notin Range(BeesOf(acted))
  /\ \E p \in Grid : ant[p].name = "Eater" /\ ant[p].turnsEating = 3 /\ ant[p].stomach = <<>>

\* the Growers whose act() the step invoked
C31_Growers == {p \in Grid : AntRef(p) \in ActedNow /\ ant[p].name = "Grower"}

\* C31: the food of a colony built with food >= 0 is never negative; a step
\* lowers it only as a deployAnt that returns no error, by the cost of the
\* defender that then stands in the Place, and raises it only by 1, as the
\* act() of a Grower.
C31_Food ==
  [][/\ food >= 0 /\ food' >= 0
     /\ food' < food =>
          /\ ret'.op = "deployAnt"
          /\ ret'.value = "undefined"
          /\ \E p \in Grid :
               \/ ant'[p] # ant[p] /\ food' = food - ant'[p].foodCost
               \/ guard'[p] # guard[p] /\ food' = food - guard'[p].foodCost
     /\ food' > food => food' = food + 1 /\ Cardinality(C31_Growers) = 1
     /\ ret'.op \in {"removeAnt", "boostAnt"} => food' = food]_vars

\* the last of the food has just been spent on a defender
C31_Witness ==
  /\ ret.op = "deployAnt"
  /\ ret.value = "undefined"
  /\ food = 0
  /\ cfg.startingFood > 0

\* the guard slot of every Place holds a Guard or nothing, the regular slot
\* never a Guard
C32_Slots ==
  \A p \in Grid :
    /\ guard[p] # NoAnt => guard[p].name = "Guard"
    /\ ant[p].name # "Guard"

\* what C32 says of deployAnt(antType, coords) for a type name that is known
\* and coordinates in the grid; refusal is the error returned when the slot
\* for the type is occupied
C32_Deployed(antType, coords, refusal) ==
  LET kind == ToLowerCase(antType)
      p == Tunnel(KeyIndex(coords[1]), KeyIndex(coords[2]))
      occupied == IF kind = "guard" THEN guard[p] # NoAnt ELSE ant[p] # NoAnt
  IN  /\ occupied => ret'.value = refusal /\ UNCHANGED <<ant, guard, food>>
      /\ ~occupied /\ food >= Fresh(kind).foodCost =>
           /\ ret'.value = "undefined"
           /\ IF kind = "guard"
                THEN guard'[p].name = "Guard" /\ ant' = ant
                ELSE ant'[p].name # "Guard" /\ ant'[p] # NoAnt /\ guard' = guard

\* C32 as claimed: a deployAnt onto an occupied slot of the matching kind
\* returns 'tunnel already occupied'
C32_AsClaimed ==
  [][/\ C32_Slots /\ C32_Slots'
     /\ \A antType \in AntTypes, coords \in GridCoords :
          Deploys(antType, coords) /\ ToLowerCase(antType) \in Recognized =>
            C32_Deployed(antType, coords, "tunnel already occupied")]_vars

\* C32 as amended: the guard slot of a Place holds a Guard or nothing and the
\* regular slot never a Guard; a deployAnt onto an occupied slot of the matching
\* kind leaves the occupant in place and returns 'tunnel already occupied' when
\* the food covers the cost of the type and 'not enough food' when it does not;
\* a Guard is deployed over a regular defender and a regular defender under a
\* Guard.
C32_Amended ==
  [][/\ C32_Slots /\ C32_Slots'
     /\ \A antType \in AntTypes, coords \in GridCoords :
          Deploys(antType, coords) /\ ToLowerCase(antType) \in Recognized =>
            C32_Deployed(antType, coords,
                         IF food >= Fresh(ToLowerCase(antType)).foodCost
                           THEN "tunnel already occupied" ELSE "not enough food")]_vars

\* a deployAnt has just been refused for a regular slot that is occupied, food
\* being left for the defender refused
C32_Witness ==
  /\ ret.op = "deployAnt"
  /\ ret.value = "tunnel already occupied"
  /\ ant[Tunnel(0, 0)] # NoAnt
  /\ guard[Tunnel(0, 0)] = NoAnt
  /\ food >= 4

\* the lists of attackers: those of the Hive, of the Places of the grid and of
\* the queen's Place, and the stomachs of the Eaters on the grid
C33_Lists ==
  [q \in DOMAIN bees |-> bees[q]] @@
  [s \in {Stomach(p) : p \in Grid} |->
     LET p == CHOOSE q \in Grid : Stomach(q) = s IN ant[p].stomach]

RECURSIVE C33_Total(_)
C33_Total(places) ==
  IF places = {} THEN 0
  ELSE LET q == CHOOSE x \in places : TRUE
       IN  Len(C33_Lists[q]) + C33_Total(places \ {q})

C33_Consistent ==
  /\ C33_Total(DOMAIN C33_Lists) =
       Cardinality(UNION {Range(C33_Lists[q]) : q \in DOMAIN C33_Lists})
  /\ \A q \in DOMAIN C33_Lists : \A b \in Range(C33_Lists[q]) :
       b \in DOMAIN insect /\ insect[b].place = q

C33_WitnessCoughedUp ==
  \E p \in Grid :
    /\ ant[p].name = "Eater" /\ ant[p].turnsEating = 3 /\ ant[p].stomach = <<>>
    /\ bees[p] # <<>>

\* C34: between the operations every unit held by a Place, in its regular slot,
\* in its guard slot or in its list of attackers, has armor > 0.
C34_Armor ==
  pc = "idle" =>
    /\ \A p \in Grid :
         /\ ant[p] # NoAnt => ant[p].armor > 0
         /\ guard[p] # NoAnt => guard[p].armor > 0
    /\ \A q \in DOMAIN bees : \A b \in Range(bees[q]) : insect[b].armor > 0

\* C35: once gameIsWon() returns false it returns false after every later
\* step, since a Bee in the queen's Place stays listed there, keeps its armor
\* and status, and no act() of it runs.
C35_Loss ==
  [][/\ gameIsWon = "false" => AntGame_gameIsWon(Heap') = "false"
     /\ \A b \in Range(bees[queenPlace]) :
          /\ b \in Range(bees'[queenPlace])
          /\ insect'[b] = insect[b]
          /\ BeeRef(b) \notin ActedNow]_vars

\* the game is lost with a Thrower on the grid, an attacker in its Place and a
\* turn still to be taken
C35_Witness ==
  /\ gameIsWon = "false"
  /\ pc = "beesAct"
  /\ \E p \in Grid : ant[p].name = "Thrower" /\ bees[p] # <<>>

\* C36: once gameIsWon() returns true it returns true after every later step
\* that is not a Hive.addWave, also while an Eater holds a Bee: no Bee stands
\* in a Place of the grid or in the queen's Place again.
C36_Win ==
  [][gameIsWon = "true" /\ ret'.op # "addWave" =>
       /\ AntGame_gameIsWon(Heap') = "true"
       /\ \A q \in Grid \cup {queenPlace} : bees'[q] = <<>>]_vars

\* the game is won while an Eater holds a Bee it has not digested
C36_Witness ==
  /\ gameIsWon = "true"
  /\ pc = "idle"
  /\ \E p \in Grid : ant[p].stomach # <<>> /\ ant[p].turnsEating = 1

\* the game is won and the Eater that held the last Bee has been removed
C36_WitnessRemoved ==
  /\ gameIsWon = "true"
  /\ insect # <<>>
  /\ Lost # {}

\* what C37 says of a step, for Bee b standing in a Place of the grid
C37_Moved(b) ==
  LET from == insect[b].place
      to == insect'[b].place
  IN  /\ to \in Grid =>
           /\ to[2] = from[2]
           /\ to[3] \in {from[3], from[3] - 1}
      /\ to \notin Grid /\ to \in DOMAIN bees => to = queenPlace /\ from[3] = 0
      /\ to \notin DOMAIN bees /\ to # Undefined =>
           to = Stomach(from) /\ b \in Range(ant'[from].stomach)
      /\ to # from /\ to \in DOMAIN bees =>
           /\ BeeRef(b) \in ActedNow
           /\ BeeRef(b) \notin Range(acted) \/ ret'.op = "takeTurn"

\* C37: a Bee of the grid stays in its tunnel and in its Place or goes to the
\* exit of its Place, by its own act() and so once in a turn at most; a Bee
\* that leaves a stomach alive stands in the Place of the Eater, where it was
\* swallowed.
C37_Path ==
  [][/\ \A b \in DOMAIN insect : insect[b].place \in Grid => C37_Moved(b)
     /\ \A p \in Grid : \A b \in Range(ant[p].stomach) :
          insect'[b].place \in {Stomach(p), p, Undefined}]_vars

\* a Bee swallowed in the first Place of the tunnel has been coughed up there
C37_Witness ==
  \E p \in Grid :
    /\ p[3] = 0 /\ getEntrance(p) # Undefined
    /\ ant[p].name = "Eater" /\ ant[p].turnsEating = 3 /\ ant[p].stomach = <<>>
    /\ \E b \in Range(bees[p]) : Len(bees[p]) > 1 /\ b = bees[p][Len(bees[p])] /\ b < bees[p][1]

\* where C38 has the Bees of the waves between two takeTurn() calls, in a
\* colony without defenders: in the Hive until their turn, then one Place
\* nearer to the queen at each call, and in the queen's Place from the
\* tunnelLength-th call after the invasion on
C38_Schedule ==
  pc = "idle" =>
    \A t \in DOMAIN waves : \A b \in Range(waves[t]) :
      LET place == insect[b].place
      IN  IF turn <= t THEN place = hive
          ELSE IF turn - t <= cfg.tunnelLength
                 THEN place \in Grid /\ place[3] = cfg.tunnelLength - (turn - t)
                 ELSE place = queenPlace /\ gameIsWon = "false"

\* a wave is due early enough for its Bees to cross the tunnel in the turns
\* of the game
C38_Due ==
  /\ pc = "idle"
  /\ \E t \in DOMAIN waves :
       waves[t] # <<>> /\ t + 1 + cfg.tunnelLength <= MaxMarchTurn

\* C38: with tunnels of length L >= 1 and no defender ever on the board, a Bee
\* that invades stands in the queen's Place after exactly L further takeTurn()
\* calls, and repeated takeTurn() calls lead to gameIsWon() being false.
C38_March == []C38_Schedule /\ (C38_Due ~> gameIsWon = "false")

\* the Bees of the first wave stand in the queen's Place while those of the
\* second are on their way, and no defender is on the board
C38_Witness ==
  /\ pc = "idle"
  /\ turn = 1 + cfg.tunnelLength
  /\ DOMAIN waves = {0, 1}
  /\ \A b \in Range(waves[0]) : insect[b].place = queenPlace
  /\ \A b \in Range(waves[1]) : insect[b].place \in Grid
  /\ \A p \in Grid : ant[p] = NoAnt /\ guard[p] = NoAnt

\* the largest turn a wave is scheduled for
C39_LastWave == CHOOSE t \in DOMAIN waves : \A u \in DOMAIN waves : u <= t

\* C39: whatever addWave(attackTurn, numBees) calls were made before the first
\* takeTurn(), two for one attackTurn among them, the Hive lists no Bee once
\* the turn counter exceeds the largest attackTurn scheduled.
C39_HiveEmpties ==
  pc = "idle" /\ DOMAIN waves # {} /\ turn > C39_LastWave => bees[hive] = <<>>

\* the same, for the games in which every Bee created is still in the wave
\* kept for its turn: no second addWave has named a turn already scheduled
C39_HiveEmptiesDistinct ==
  (\A b \in DOMAIN insect : \E t \in DOMAIN waves : b \in Range(waves[t])) =>
    C39_HiveEmpties

\* C40: every reduceArmor(amount) call leaves the armor of its unit lower by
\* exactly amount, whether the unit expires in the call or not.
C40_Exact ==
  [][\A c \in Calls : c.after = c.before - c.amount]_vars

\* the same, but for the call in which an Eater expires
C40_ExactButEater ==
  [][\A c \in Calls :
       ~(c.unit.kind = "Ant" /\ ant[c.unit.p].name = "Eater" /\ c.expired) =>
         c.after = c.before - c.amount]_vars

\* what the call in which an Eater expires takes: twice the amount
C40_Twice ==
  [][\A c \in Calls :
       c.unit.kind = "Ant" /\ ant[c.unit.p].name = "Eater" /\ c.expired =>
         c.after = c.before - 2 * c.amount]_vars

====
